---- MODULE Spec2Model ----
(***************************************************************************)
(* Model of the aranet4 time-series store (package arabolt, backed by      *)
(* bbolt, and package arasqlite, backed by SQLite) behind the aranet4.DB   *)
(* interface: AddDevice, PutData, Data, Last and Devices; and of the       *)
(* reconstruction of a device's history, Device.ReadAll, as aranet4-daq    *)
(* runs it.                                                                *)
(*                                                                         *)
(* A sample is the record [t, co2]: Data{Time: time.Unix(t, 0), CO2: co2}  *)
(* with every other field left at its zero value.  Times are Unix seconds. *)
(***************************************************************************)
EXTENDS Integers, Sequences, FiniteSets, TLC

(***************************************************************************)
(* Bounds of the model.                                                    *)
(***************************************************************************)
\* Longest batch handed to PutData.  sort.Slice and sort.Sort run a plain
\* insertion sort on slices of at most 12 elements, which is what
\* insertionSort below models.
MaxBatch == 3

\* Number of calls made on the store in one behaviour.
MaxCalls == 3

\* Device ids.
Ids == {"dev1", "dev2"}

\* Sample times: 250/253 and 253/256 are less than timeResolution apart,
\* 250/255 exactly timeResolution apart, 250/256 more; 255 and 256 differ in
\* the second byte of their little-endian key.
Times == {250, 253, 255, 256}

\* The samples PutData is called with.
Samples ==
    [t : Times, co2 : {500}] \cup {[t |-> 250, co2 |-> 600]}

\* Bounds of the range queries; 0 is the unconstrained bound.
Bounds == {0, 253, 256}

RECURSIVE SeqsUpTo(_, _)
SeqsUpTo(S, n) ==
    IF n = 0 THEN {<<>>}
    ELSE LET shorter == SeqsUpTo(S, n - 1)
         IN  shorter \cup {Append(s, x) : s \in {q \in shorter : Len(q) = n - 1}, x \in S}

Batches == SeqsUpTo(Samples, MaxBatch)

\* Largest n retry is called with by a caller other than the loops.
MaxTries == 3

\* Ticks of a scheduling loop.
MaxTicks == 2

\* Largest number of samples the device reports (NumData).
MaxN == 3

\* Chunks decoded without an error during one reconstruction.
MaxChunks == 1

\* Element counts of the streamed chunks.
Counts == {1, 2}

\* time.Now() at the start of ReadAll, the seconds since the last update
\* (Since) and the sampling interval (Interval), in seconds.
Clock == {1000}

Agos == {0, 30}

Deltas == {60}

(***************************************************************************)
(* State.                                                                  *)
(***************************************************************************)
VARIABLES
    backend,    \* "bolt" (arabolt.DB) or "sqlite" (arasqlite.DB)
    last,       \* DB.last: map from device id to its last sample
    rows,       \* the device buckets (bolt: key -> 17-byte value) or tables (sqlite: time -> row)
    ret,        \* the most recent call: op, id, n (length of the batch of a PutData), the
                \* error returned and out (the samples yielded by Data, the sample returned
                \* by Last, the values PutData assigned to db.last[id], in order)
    ncalls,     \* number of calls made so far
    pc,         \* where ReadAll stands: "start", "write" (readN about to write its command),
                \* "subscribe", "wait" (readN blocked in <-errs), "done" (ReadAll returned),
                \* "panic" (the process died of a panic in the notification handler)
    ch,         \* index of the channel being read in the order T, H, P, CO2
    loc,        \* the locals of ReadAll: now, ago, delta, n
    dst,        \* out of ReadAll, the dst of readN: n slots [T, H, P, CO2]
    errs,       \* the channel errs of readN: "none", "open" or "closed"
    rerr,       \* the error readN has received from errs, "nil" while none
    subs,       \* the notification subscriptions that are open (channel ids)
    cmds,       \* the commands written to the device so far
    ev,         \* the last notification handled: hdr (its first four bytes at most), res
                \* (what the handler did with it) and logged (lines it logged)
    nchunks,    \* chunks decoded without an error so far
    readall,    \* what ReadAll returned: err and out
    daq,        \* aranet4-daq's server.run: st ("readn", "uploaded", "fatal") and vs, the
                \* samples handed to upload
    codec,      \* the record codec at work: op, src (the sample encoded), conv (how the
                \* build converts an out-of-range float), buf, err, dst (the sample
                \* decoded into) and cached (the sample kept as db.last[id])
    rt,         \* a call of retry(n, f): st, n, i (attempts made), outs (what each
                \* attempt returned) and ret (what retry returned)
    lp,         \* a scheduling loop: prog, st, ticks, cycle (how the last cycle ended)
                \* and logged (errors logged)
    mu,         \* srv.mu of arasrv.Server: w (the goroutine holding the write lock,
                \* "none" if free) and r (the goroutines holding the read lock)
    gs,         \* the goroutines serving HTTP requests: pc, req, id, method, n (length
                \* of the batch of an ingest), todo (assignments to db.last[id] still
                \* to make), done (assignments made), post (the bucket to commit), err
                \* and status (the HTTP status answered, 0 while none)
    mgrs        \* srv.mgrs: device id -> manager, with last (mgr.last) and plots
                \* (mgr.plots: st, "busy" while manager.plot writes the buffers, and
                \* of, the rows they are drawn from)

storevars == <<backend, last, rows, ret, ncalls>>

devvars == <<pc, ch, loc, dst, errs, rerr, subs, cmds, ev, nchunks, readall, daq>>

auxvars == <<codec, rt, lp, mu, gs, mgrs>>

vars == <<backend, last, rows, ret, ncalls,
          pc, ch, loc, dst, errs, rerr, subs, cmds, ev, nchunks, readall, daq,
          codec, rt, lp, mu, gs, mgrs>>

(***************************************************************************)
(* aranet4.Data{}: the zero sample.  Its Time is the zero time.Time, whose *)
(* Unix() is -62135596800; the model keeps a stand-in that, like the real  *)
(* value, lies more than timeResolution below every sample time.           *)
(***************************************************************************)
ZeroUnix == 0 - 2000000000

ZeroData == [t |-> ZeroUnix, co2 |-> 0]

IsZero(v) == v.t = ZeroUnix

timeResolution == 5

abs(v) == IF v < 0 THEN 0 - v ELSE v

ltApprox(a, b) ==
    IF abs(a.t - b.t) < timeResolution THEN FALSE ELSE a.t < b.t

\* Data.Before and Samples.Less of package aranet4.
Before(a, b) == ltApprox(a, b)

SamplesLess(a, b) == ltApprox(a, b)

\* bytes.Compare(a, b) < 0: the order in which bbolt iterates its keys, and
\* the order of Go strings.
RECURSIVE BytesLess(_, _)
BytesLess(a, b) ==
    IF b = <<>> THEN FALSE
    ELSE IF a = <<>> THEN TRUE
    ELSE IF a[1] # b[1] THEN a[1] < b[1]
    ELSE BytesLess(Tail(a), Tail(b))

\* The bytes of the device ids.
IdBytes ==
    [id \in Ids |-> IF id = "dev1" THEN <<100, 101, 118, 49>> ELSE <<100, 101, 118, 50>>]

\* a < b on strings, as sort.Strings compares.
StringLess(a, b) == BytesLess(IdBytes[a], IdBytes[b])

(***************************************************************************)
(* Sorting: insertion sort, as sort.Slice / sort.Sort / sort.Strings do    *)
(* for n <= 12.  by names the order: "ltApprox" for sort.Slice with        *)
(* ltApprox, "Samples" for sort.Sort(aranet4.Samples(vs)), "Strings" for   *)
(* sort.Strings.                                                           *)
(***************************************************************************)
Less(by, a, b) ==
    IF by = "Samples" THEN SamplesLess(a, b)
    ELSE IF by = "Strings" THEN StringLess(a, b)
    ELSE ltApprox(a, b)

Swap(s, i, j) == [s EXCEPT ![i] = s[j], ![j] = s[i]]

RECURSIVE SiftDown(_, _, _)
SiftDown(by, s, j) ==
    IF j > 1 /\ Less(by, s[j], s[j - 1])
    THEN SiftDown(by, Swap(s, j, j - 1), j - 1)
    ELSE s

RECURSIVE InsertFrom(_, _, _)
InsertFrom(by, s, i) ==
    IF i > Len(s) THEN s ELSE InsertFrom(by, SiftDown(by, s, i), i + 1)

insertionSort(by, s) == InsertFrom(by, s, 2)

(***************************************************************************)
(* The persisted record: 17 bytes, little-endian.  arabolt's marshalBinary *)
(* and unmarshalBinary hand over to Data.Marshal and Data.Unmarshal; the   *)
(* layout is the one written out in arasrv's marshalBinary.                *)
(***************************************************************************)
dataSize == 17

RECURSIVE PutUint(_, _)
PutUint(v, n) ==
    IF n = 0 THEN <<>> ELSE <<v % 256>> \o PutUint(v \div 256, n - 1)

RECURSIVE Uint(_)
Uint(p) ==
    IF p = <<>> THEN 0 ELSE p[1] + 256 * Uint(Tail(p))

marshalBinary(v) ==
    PutUint(v.t, 8)             \* Time
    \o <<0>>                    \* H
    \o PutUint(0, 2)            \* P
    \o PutUint(0, 2)            \* T
    \o PutUint(v.co2, 2)        \* CO2
    \o <<0>>                    \* Battery
    \o <<0>>                    \* Interval

unmarshalBinary(p) ==
    IF Len(p) # dataSize
    THEN [err |-> "short buffer", data |-> ZeroData]
    ELSE [err |-> "nil",
          data |-> [t |-> Uint(SubSeq(p, 1, 8)), co2 |-> Uint(SubSeq(p, 14, 15))]]

\* The bucket key of a sample: its Unix time as 8 little-endian bytes.
Key(t) == PutUint(t, 8)

(***************************************************************************)
(* Last.                                                                   *)
(***************************************************************************)
Last(l, id) ==
    IF id \notin DOMAIN l THEN [err |-> "no such device", data |-> ZeroData]
    ELSE IF IsZero(l[id]) THEN [err |-> "no data", data |-> l[id]]
    ELSE [err |-> "nil", data |-> l[id]]

(***************************************************************************)
(* Maps.                                                                   *)
(***************************************************************************)
Empty == [k \in {} |-> 0]

Set(f, k, v) == [x \in DOMAIN f \cup {k} |-> IF x = k THEN v ELSE f[x]]

(***************************************************************************)
(* PutData, bbolt backend.                                                 *)
(***************************************************************************)
\* Index of the first element of vs that lies after lastv, Len(vs)+1 if none.
RECURSIVE FirstAfter(_, _, _)
FirstAfter(lastv, vs, i) ==
    IF i > Len(vs) THEN i
    ELSE IF ltApprox(lastv, vs[i]) THEN i
    ELSE FirstAfter(lastv, vs, i + 1)

\* The loop of the Update transaction: st = [bkt, cur, trace], with cur the
\* value of db.last[id] and trace the values assigned to it so far.
RECURSIVE BoltWrite(_, _, _)
BoltWrite(lastv, st, vs) ==
    IF vs = <<>> THEN st
    ELSE LET v   == Head(vs)
             bkt == Set(st.bkt, Key(v.t), marshalBinary(v))
         IN  IF ltApprox(lastv, v)
             THEN BoltWrite(lastv, [bkt |-> bkt, cur |-> v, trace |-> Append(st.trace, v)], Tail(vs))
             ELSE BoltWrite(lastv, [st EXCEPT !.bkt = bkt], Tail(vs))

\* BoltPutData returning nil when Last(id) fails.
BoltPutData_SwallowsLastError(l, r, id, vs) ==
    LET lst    == Last(l, id)
        sorted == insertionSort("ltApprox", vs)
        idx    == FirstAfter(lst.data, sorted, 1)
        tail   == SubSeq(sorted, idx, Len(sorted))
        same   == [err |-> "nil", last |-> l, rows |-> r, trace |-> <<>>]
    IN  IF lst.err \notin {"nil", "no data"} THEN same
        ELSE IF tail = <<>> THEN same
        ELSE IF id \notin DOMAIN r THEN [same EXCEPT !.err = "could not access data bucket"]
        ELSE LET st == BoltWrite(lst.data, [bkt |-> r[id], cur |-> l[id], trace |-> <<>>], tail)
             IN  [err   |-> "nil",
                  last  |-> [l EXCEPT ![id] = st.cur],
                  rows  |-> [r EXCEPT ![id] = st.bkt],
                  trace |-> st.trace]

BoltPutData(l, r, id, vs) ==
    LET lst    == Last(l, id)
        sorted == insertionSort("ltApprox", vs)
        idx    == FirstAfter(lst.data, sorted, 1)
        tail   == SubSeq(sorted, idx, Len(sorted))
        same   == [err |-> "nil", last |-> l, rows |-> r, trace |-> <<>>]
    IN  IF lst.err \notin {"nil", "no data"} THEN [same EXCEPT !.err = lst.err]
        ELSE IF tail = <<>> THEN same
        ELSE IF id \notin DOMAIN r THEN [same EXCEPT !.err = "could not access data bucket"]
        ELSE LET st == BoltWrite(lst.data, [bkt |-> r[id], cur |-> l[id], trace |-> <<>>], tail)
             IN  [err   |-> "nil",
                  last  |-> [l EXCEPT ![id] = st.cur],
                  rows  |-> [r EXCEPT ![id] = st.bkt],
                  trace |-> st.trace]

(***************************************************************************)
(* PutData, SQLite backend.  The table's primary key is the time: an       *)
(* INSERT of a time already in the table fails, and the deferred Rollback  *)
(* undoes the rows of the transaction; db.last is not part of it.          *)
(***************************************************************************)
RECURSIVE SqliteInsert(_, _, _)
SqliteInsert(lastv, st, vs) ==
    IF vs = <<>> \/ st.err # "nil" THEN st
    ELSE LET v == Head(vs)
         IN  IF v.t \in DOMAIN st.tbl
             THEN [st EXCEPT !.err = "could not insert data"]
             ELSE LET tbl == Set(st.tbl, v.t, v)
                  IN  IF Before(lastv, v)
                      THEN SqliteInsert(lastv, [err |-> "nil", tbl |-> tbl, cur |-> v,
                                                trace |-> Append(st.trace, v)], Tail(vs))
                      ELSE SqliteInsert(lastv, [st EXCEPT !.tbl = tbl], Tail(vs))

SqlitePutData(l, r, id, vs) ==
    LET lst    == Last(l, id)
        sorted == insertionSort("Samples", vs)
        same   == [err |-> "nil", last |-> l, rows |-> r, trace |-> <<>>]
    IN  IF lst.err \notin {"nil", "no data"} THEN [same EXCEPT !.err = lst.err]
        ELSE IF id \notin DOMAIN r
             THEN IF sorted = <<>> THEN same ELSE [same EXCEPT !.err = "could not insert data"]
        ELSE LET st == SqliteInsert(lst.data, [err |-> "nil", tbl |-> r[id], cur |-> l[id],
                                                trace |-> <<>>], sorted)
             IN  [err   |-> st.err,
                  last  |-> [l EXCEPT ![id] = st.cur],
                  rows  |-> IF st.err = "nil" THEN [r EXCEPT ![id] = st.tbl] ELSE r,
                  trace |-> st.trace]

PutDataOp(b, l, r, id, vs) ==
    IF b = "bolt" THEN BoltPutData(l, r, id, vs) ELSE SqlitePutData(l, r, id, vs)

(***************************************************************************)
(* Data.                                                                   *)
(***************************************************************************)
\* The keys of a bucket in the order ForEach visits them.
RECURSIVE KeysInOrder(_)
KeysInOrder(S) ==
    IF S = {} THEN <<>>
    ELSE LET m == CHOOSE x \in S : \A y \in S \ {x} : BytesLess(x, y)
         IN  <<m>> \o KeysInOrder(S \ {m})

\* BoltForEach skipping a record that cannot be decoded.
RECURSIVE BoltForEach_SkipsCorrupted(_, _, _, _, _)
BoltForEach_SkipsCorrupted(bkt, keys, beg, end, acc) ==
    IF keys = <<>> THEN [err |-> "nil", out |-> acc]
    ELSE LET u  == unmarshalBinary(bkt[Head(keys)])
             id == u.data.t
         IN  IF u.err # "nil" THEN BoltForEach_SkipsCorrupted(bkt, Tail(keys), beg, end, acc)
             ELSE IF beg > id THEN BoltForEach_SkipsCorrupted(bkt, Tail(keys), beg, end, acc)
             ELSE IF end > 0 /\ id > end THEN BoltForEach_SkipsCorrupted(bkt, Tail(keys), beg, end, acc)
             ELSE BoltForEach_SkipsCorrupted(bkt, Tail(keys), beg, end, Append(acc, u.data))

\* Bucket.ForEach of the Data callback: rows so far, or the first error.
RECURSIVE BoltForEach(_, _, _, _, _)
BoltForEach(bkt, keys, beg, end, acc) ==
    IF keys = <<>> THEN [err |-> "nil", out |-> acc]
    ELSE LET u  == unmarshalBinary(bkt[Head(keys)])
             id == u.data.t
         IN  IF u.err # "nil" THEN [err |-> u.err, out |-> <<>>]
             ELSE IF beg > id THEN BoltForEach(bkt, Tail(keys), beg, end, acc)
             ELSE IF end > 0 /\ id > end THEN BoltForEach(bkt, Tail(keys), beg, end, acc)
             ELSE BoltForEach(bkt, Tail(keys), beg, end, Append(acc, u.data))

BoltData(r, id, beg, end) ==
    IF id \notin DOMAIN r THEN [err |-> "could not find data bucket", out |-> <<>>]
    ELSE LET got == BoltForEach(r[id], KeysInOrder(DOMAIN r[id]), beg, end, <<>>)
         IN  IF got.err # "nil" THEN [err |-> "could not read rows", out |-> <<>>]
             ELSE [err |-> "nil", out |-> insertionSort("ltApprox", got.out)]

\* ORDER BY time ASC.
RECURSIVE OrderByTime(_)
OrderByTime(S) ==
    IF S = {} THEN <<>>
    ELSE LET m == CHOOSE x \in S : \A y \in S : x <= y
         IN  <<m>> \o OrderByTime(S \ {m})

SqliteData(r, id, beg, end) ==
    IF id \notin DOMAIN r THEN [err |-> "could not issue query", out |-> <<>>]
    ELSE LET sel  == {t \in DOMAIN r[id] : (beg > 0 => beg <= t) /\ (end > 0 => t < end)}
             asc  == OrderByTime(sel)
         IN  [err |-> "nil", out |-> [i \in 1..Len(asc) |-> r[id][asc[i]]]]

DataOp(b, r, id, beg, end) ==
    IF b = "bolt" THEN BoltData(r, id, beg, end) ELSE SqliteData(r, id, beg, end)

(***************************************************************************)
(* AddDevice.                                                              *)
(***************************************************************************)
BoltAddDevice(l, r, id) ==
    [err  |-> "nil",
     last |-> Set(l, id, ZeroData),
     rows |-> IF id \in DOMAIN r THEN r ELSE Set(r, id, Empty)]

SqliteAddDevice(l, r, id) ==
    IF id \in DOMAIN l THEN [err |-> "duplicate device", last |-> l, rows |-> r]
    ELSE [err |-> "nil", last |-> Set(l, id, ZeroData), rows |-> Set(r, id, Empty)]

AddDeviceOp(b, l, r, id) ==
    IF b = "bolt" THEN BoltAddDevice(l, r, id) ELSE SqliteAddDevice(l, r, id)

(***************************************************************************)
(* The streamed read of the device's history.                              *)
(***************************************************************************)
\* The channel ids, in the order ReadAll reads them.
paramT == 1

paramH == 2

paramP == 3

paramCO2 == 4

Params == <<paramT, paramH, paramP, paramCO2>>

\* The command readN writes to start the streamed read of channel id.
\* The command with its two ranges written high byte first.
cmd_BigEndian(id) == <<130, id, 0, 0, 0, 1, 255, 255>>

cmd(id) == <<130, id, 0, 0>> \o PutUint(1, 2) \o PutUint(65535, 2)

\* aranet4.Data{} as far as a streamed read fills it.
ZeroSlot == [T |-> 0, H |-> 0, P |-> 0, CO2 |-> 0]

\* make([]Data, n)
MakeSlots(n) == [i \in 1..n |-> ZeroSlot]

min(a, b) == IF a < b THEN a ELSE b

\* The field of Data a channel fills and the width of its values on the wire.
Field(id) ==
    IF id = paramT THEN "T" ELSE IF id = paramH THEN "H" ELSE IF id = paramP THEN "P" ELSE "CO2"

Width(id) == IF id = paramH THEN 1 ELSE 2

\* The raw value that stands for "no data": the top bit of the value is set.
IsNoData(id, raw) == raw >= (IF id = paramH THEN 128 ELSE 32768)

\* decoder.readField(id, &v) on the bytes buf that are left: the error, the
\* sample and the bytes left after it.  The value is kept as the raw integer.
readField(id, v, buf) ==
    IF Len(buf) < Width(id)
    THEN [err |-> "unexpected EOF", v |-> v, rest |-> <<>>]
    ELSE LET raw  == Uint(SubSeq(buf, 1, Width(id)))
             rest == SubSeq(buf, Width(id) + 1, Len(buf))
         IN  IF IsNoData(id, raw)
             THEN [err |-> "no data", v |-> v, rest |-> rest]
             ELSE [err |-> "nil", v |-> [v EXCEPT ![Field(id)] = raw], rest |-> rest]

\* decodeChunk failing on a "no data" value like on any other error.
RECURSIVE decodeChunk_NoDataFatal(_, _, _, _, _)
decodeChunk_NoDataFatal(id, st, buf, i, max) ==
    IF i >= max THEN st
    ELSE LET f == readField(id, st.dst[i + 1], buf)
         IN  IF f.err = "nil"
             THEN decodeChunk_NoDataFatal(id, [st EXCEPT !.dst[i + 1] = f.v], f.rest, i + 1, max)
             ELSE [st EXCEPT !.err = "could not read param"]

\* The loop of the handler over the slots i (0-based) of [idx, max): st is
\* [err, dst, logged].
RECURSIVE decodeChunk(_, _, _, _, _)
decodeChunk(id, st, buf, i, max) ==
    IF i >= max THEN st
    ELSE LET f == readField(id, st.dst[i + 1], buf)
         IN  IF f.err = "nil"
             THEN decodeChunk(id, [st EXCEPT !.dst[i + 1] = f.v], f.rest, i + 1, max)
             ELSE IF f.err # "no data"
             THEN [st EXCEPT !.err = "could not read param"]
             ELSE decodeChunk(id, [st EXCEPT !.dst[i + 1] = f.v, !.logged = @ + 1],
                              f.rest, i + 1, max)

\* handler looping up to idx + cnt: an index past the end of dst panics.
handler_NoClip(d, id, p) ==
    LET same == [res |-> "nil", dst |-> d, logged |-> 0]
    IN  IF Len(p) < 1 THEN [same EXCEPT !.res = "panic"]
        ELSE IF p[1] # id THEN [same EXCEPT !.res = "invalid parameter"]
        ELSE IF Len(p) < 3 THEN [same EXCEPT !.res = "panic"]
        ELSE IF Len(p) < 4 THEN [same EXCEPT !.res = "panic"]
        ELSE LET idx == (Uint(SubSeq(p, 2, 3)) - 1) % 65536
                 cnt == p[4]
             IN  IF cnt = 0 THEN [same EXCEPT !.res = "close"]
                 ELSE LET max == min(idx + cnt, Len(d))
                          st  == decodeChunk(id, [err |-> "nil", dst |-> d, logged |-> 0],
                                             SubSeq(p, 5, Len(p)), idx, max)
                      IN  IF st.err = "nil" /\ idx + cnt > Len(d)
                          THEN [res |-> "panic", dst |-> st.dst, logged |-> st.logged]
                          ELSE [res |-> st.err, dst |-> st.dst, logged |-> st.logged]

\* handler without the test of the frame's channel id.
handler_NoParamCheck(d, id, p) ==
    LET same == [res |-> "nil", dst |-> d, logged |-> 0]
    IN  IF Len(p) < 4 THEN [same EXCEPT !.res = "panic"]
        ELSE LET idx == (Uint(SubSeq(p, 2, 3)) - 1) % 65536
                 cnt == p[4]
             IN  IF cnt = 0 THEN [same EXCEPT !.res = "close"]
                 ELSE LET max == min(idx + cnt, Len(d))
                          st  == decodeChunk(id, [err |-> "nil", dst |-> d, logged |-> 0],
                                             SubSeq(p, 5, Len(p)), idx, max)
                      IN  [res |-> st.err, dst |-> st.dst, logged |-> st.logged]

\* The notification handler of readN(dst, id) on the frame p, up to what it
\* does with errs: res is "nil" (chunk decoded), "close" (close(errs)), an
\* error to send on errs, or "panic" (index out of range).
handler(d, id, p) ==
    LET same == [res |-> "nil", dst |-> d, logged |-> 0]
    IN  IF Len(p) < 1 THEN [same EXCEPT !.res = "panic"]
        ELSE IF p[1] # id THEN [same EXCEPT !.res = "invalid parameter"]
        ELSE IF Len(p) < 3 THEN [same EXCEPT !.res = "panic"]
        ELSE IF Len(p) < 4 THEN [same EXCEPT !.res = "panic"]
        ELSE LET idx == (Uint(SubSeq(p, 2, 3)) - 1) % 65536
                 cnt == p[4]
             IN  IF cnt = 0 THEN [same EXCEPT !.res = "close"]
                 ELSE LET max == min(idx + cnt, Len(d))
                          st  == decodeChunk(id, [err |-> "nil", dst |-> d, logged |-> 0],
                                             SubSeq(p, 5, Len(p)), idx, max)
                      IN  [res |-> st.err, dst |-> st.dst, logged |-> st.logged]

\* readN returning without Unsubscribe.
Unsubscribe_Leaks(s, id) == s

\* The deferred Unsubscribe of readN.
Unsubscribe(s, id) == s \ {id}

\* SlotTime counting n intervals back instead of n - 1.
SlotTime_OffByOne(now, ago, delta, n, i) ==
    LET beg == now + ((0 - ago) - n * delta)
    IN  beg + i * delta

\* Time of slot i (0-based) of the n slots of a reconstruction.
SlotTime(now, ago, delta, n, i) ==
    LET beg == now + ((0 - ago) - (n - 1) * delta)
    IN  beg + i * delta

\* QualityFrom(co2)
QualityFrom(co2) == IF co2 < 1000 THEN 1 ELSE IF co2 < 1400 THEN 2 ELSE 3

\* The loop of ReadAll leaving Battery at the zero value of the slot.
PostProcess_KeepsBattery(l, out) ==
    [i \in 1..Len(out) |->
        [Time     |-> SlotTime(l.now, l.ago, l.delta, l.n, i - 1),
         T        |-> out[i].T,
         H        |-> out[i].H,
         P        |-> out[i].P,
         CO2      |-> out[i].CO2,
         Battery  |-> 0,
         Quality  |-> QualityFrom(out[i].CO2),
         Interval |-> l.delta]]

\* The loop of ReadAll over out once the four channels are read.
PostProcess(l, out) ==
    [i \in 1..Len(out) |->
        [Time     |-> SlotTime(l.now, l.ago, l.delta, l.n, i - 1),
         T        |-> out[i].T,
         H        |-> out[i].H,
         P        |-> out[i].P,
         CO2      |-> out[i].CO2,
         Battery  |-> 0 - 1,
         Quality  |-> QualityFrom(out[i].CO2),
         Interval |-> l.delta]]

\* ReadAll returning the slots read so far along with the error.
ReadAllFail_ReturnsPartial(err, out) == [err |-> err, out |-> out]

\* What ReadAll returns when a step of it fails, and when it succeeds.
ReadAllFail(err, out) == [err |-> err, out |-> <<>>]

ReadAllOk(l, out) == [err |-> "nil", out |-> PostProcess(l, out)]

\* Before ReadAll is called.
DevInit ==
    /\ pc = "start"
    /\ ch = 1
    /\ loc = [now |-> 0, ago |-> 0, delta |-> 0, n |-> 0]
    /\ dst = <<>>
    /\ errs = "none"
    /\ rerr = "nil"
    /\ subs = {}
    /\ cmds = <<>>
    /\ ev = [hdr |-> <<>>, res |-> "none", logged |-> 0]
    /\ nchunks = 0
    /\ readall = [err |-> "none", out |-> <<>>]
    /\ daq = [st |-> "readn", vs |-> <<>>]

(***************************************************************************)
(* The record codec on whole samples (arasrv's marshalBinary and           *)
(* unmarshalBinary).  A sample is [Time, H, P, T, CO2, Battery, Quality,   *)
(* Interval] with Time in Unix seconds, H in %, P in tenths of hPa (the    *)
(* value of data.P*10), T in hundredths of a degree (the value of          *)
(* data.T*100) and Interval in minutes (the value of Interval.Minutes()).  *)
(***************************************************************************)
\* int64(binary.LittleEndian.Uint64(p)): the two's complement reading of p.
Int64(p) ==
    IF p[Len(p)] >= 128
    THEN 0 - (Uint([i \in 1..Len(p) |-> 255 - p[i]]) + 1)
    ELSE Uint(p)

\* 2^w for the widths in use.
Pow2(w) == IF w = 8 THEN 256 ELSE 65536

\* uintw(x) of a float64 x with no fraction.  Go leaves the result to the
\* implementation when x does not fit: conv is what the build does, "wrap"
\* (truncation of the integer, as on amd64) or "sat" (saturation, as on arm64).
Float2Uint(conv, x, w) ==
    IF 0 <= x /\ x < Pow2(w) THEN x
    ELSE IF conv = "wrap" THEN x % Pow2(w)
    ELSE IF x < 0 THEN 0 ELSE Pow2(w) - 1

marshalRecord(conv, data, p) ==
    IF Len(p) # dataSize THEN [err |-> "short buffer", p |-> p]
    ELSE [err |-> "nil",
          p   |-> PutUint(data.Time, 8)
                  \o <<Float2Uint(conv, data.H, 8)>>
                  \o PutUint(Float2Uint(conv, data.P, 16), 2)
                  \o PutUint(Float2Uint(conv, data.T, 16), 2)
                  \o PutUint(data.CO2 % 65536, 2)
                  \o <<data.Battery % 256>>
                  \o <<Float2Uint(conv, data.Interval, 8)>>]

\* unmarshalBinary resetting its destination before it tests the length.
unmarshalRecord_ClearsFirst(data, p) ==
    IF Len(p) # dataSize
    THEN [err  |-> "short buffer",
          data |-> [Time |-> 0, H |-> 0, P |-> 0, T |-> 0, CO2 |-> 0,
                    Battery |-> 0, Quality |-> 0, Interval |-> 0]]
    ELSE [err  |-> "nil",
          data |-> [Time     |-> Int64(SubSeq(p, 1, 8)),
                    H        |-> p[9],
                    P        |-> Uint(SubSeq(p, 10, 11)),
                    T        |-> Uint(SubSeq(p, 12, 13)),
                    CO2      |-> Uint(SubSeq(p, 14, 15)),
                    Battery  |-> p[16],
                    Quality  |-> QualityFrom(Uint(SubSeq(p, 14, 15))),
                    Interval |-> p[17]]]

unmarshalRecord(data, p) ==
    IF Len(p) # dataSize THEN [err |-> "short buffer", data |-> data]
    ELSE [err  |-> "nil",
          data |-> [Time     |-> Int64(SubSeq(p, 1, 8)),
                    H        |-> p[9],
                    P        |-> Uint(SubSeq(p, 10, 11)),
                    T        |-> Uint(SubSeq(p, 12, 13)),
                    CO2      |-> Uint(SubSeq(p, 14, 15)),
                    Battery  |-> p[16],
                    Quality  |-> QualityFrom(Uint(SubSeq(p, 14, 15))),
                    Interval |-> p[17]]]

\* PutData keeping v as the last sample with the Quality it came with.
cacheLast_KeepsQuality(v) == v

\* PutData keeping v as the last sample: v.Quality = QualityFrom(v.CO2),
\* then db.last[id] = v.
cacheLast(v) == [v EXCEPT !.Quality = QualityFrom(v.CO2)]

\* rows.Scan of the SQLite Data query, then the assignments to the row.
sqliteScan(v) ==
    [Time     |-> v.Time,
     H        |-> v.H,
     P        |-> v.P,
     T        |-> v.T,
     CO2      |-> v.CO2,
     Battery  |-> v.Battery,
     Quality  |-> QualityFrom(v.CO2),
     Interval |-> v.Interval]

\* aranet4.Data{} as a whole sample.
ZeroRecord ==
    [Time |-> ZeroUnix, H |-> 0, P |-> 0, T |-> 0, CO2 |-> 0,
     Battery |-> 0, Quality |-> 0, Interval |-> 0]

(***************************************************************************)
(* Devices: the keys of db.last, collected in the order the map is ranged  *)
(* over (any order), then sorted.                                          *)
(***************************************************************************)
\* The orders in which a range over a map with key set S may visit it.
MapOrders(S) ==
    {s \in [1..Cardinality(S) -> S] : \A i, j \in 1..Cardinality(S) : s[i] = s[j] => i = j}

\* Devices returning the ids as the range visited them.
Devices_Unsorted(keys) == keys

Devices(keys) == insertionSort("Strings", keys)

(***************************************************************************)
(* retry(n, f).  A call is [st, n, i, err, outs, ret]: i and err are the   *)
(* locals of retry, outs what the runs of f returned so far, ret what      *)
(* retry returned.                                                         *)
(***************************************************************************)
\* No call of retry is in progress.
retryIdle ==
    [st |-> "idle", n |-> 0, i |-> 0, err |-> "nil", outs |-> <<>>, ret |-> "none"]

\* var err error; i := 0.
retryEnter(n) ==
    [st |-> "loop", n |-> n, i |-> 0, err |-> "nil", outs |-> <<>>, ret |-> "none"]

\* One run of the loop body, f returning out: an error is logged and the
\* loop continues with i+1, nil makes retry return nil.
retryAttempt(r, out) ==
    IF out # "nil"
    THEN [r EXCEPT !.err = out, !.outs = Append(@, out), !.i = @ + 1]
    ELSE [r EXCEPT !.err = out, !.outs = Append(@, out), !.st = "returned", !.ret = "nil"]

\* retry returning the first error it met.
retryExit_FirstError(r) ==
    [r EXCEPT !.st = "returned", !.ret = IF r.outs = <<>> THEN r.err ELSE r.outs[1]]

\* The loop condition i < n is false: return err.
retryExit(r) == [r EXCEPT !.st = "returned", !.ret = r.err]

\* The n of the calls of retry in Server.loop.
loopTries == 5

(***************************************************************************)
(* Before the codec, retry, a scheduling loop and the HTTP server run.     *)
(***************************************************************************)
\* The sample a destination holds before it is decoded into.
PriorData ==
    [Time |-> 7, H |-> 1, P |-> 2, T |-> 3, CO2 |-> 4,
     Battery |-> 5, Quality |-> 1, Interval |-> 6]

CodecInit ==
    codec = [op |-> "none", src |-> PriorData, conv |-> "wrap", buf |-> <<>>,
             enc |-> FALSE, err |-> "nil", dst |-> PriorData, cached |-> ZeroRecord]

RetryInit == rt = retryIdle

LoopInit ==
    lp = [prog |-> "none", st |-> "idle", ticks |-> 0, cycle |-> "none", logged |-> 0]

\* The goroutines net/http serves requests on.
Goroutines == {"g1", "g2"}

\* A goroutine that serves no request.
Idle == [pc |-> "idle", req |-> "none", id |-> "", method |-> "", n |-> 0,
         todo |-> <<>>, done |-> 0, post |-> Empty, err |-> "nil", status |-> 0]

\* The managers Server.init builds, one for every device of the store:
\* mgr.last is Last(id), the plots are drawn from the rows of the device.
initManagers(b, l, r) ==
    [id \in DOMAIN l |->
        [last  |-> Last(l, id).data,
         plots |-> [st |-> "ready", of |-> DataOp(b, r, id, 0, 0 - 1).out]]]

SrvInit ==
    /\ mu = [w |-> "none", r |-> {}]
    /\ gs = [g \in Goroutines |-> Idle]
    /\ mgrs = initManagers(backend, last, rows)

AuxInit == CodecInit /\ RetryInit /\ LoopInit /\ SrvInit

(***************************************************************************)
(* Server.init of arasrv over the store: for every device, in the order    *)
(* the range over srv.mgrs visits them, Last, then the rows of the device  *)
(* (the plots made of them are left out).  Returns the error, "nil" if     *)
(* none.                                                                   *)
(***************************************************************************)
RECURSIVE srvInit(_, _, _, _)
srvInit(b, l, r, order) ==
    IF order = <<>> THEN "nil"
    ELSE IF Last(l, Head(order)).err # "nil" THEN "could not find last data sample"
    ELSE IF DataOp(b, r, Head(order), 0, 0 - 1).err # "nil" THEN "could not read data from db"
    ELSE srvInit(b, l, r, Tail(order))

(***************************************************************************)
(* The store as a state machine: Open on a new file, then calls.           *)
(***************************************************************************)
Init ==
    /\ backend \in {"bolt", "sqlite"}
    /\ last = Empty
    /\ rows = Empty
    /\ ret = [op |-> "Open", id |-> "", n |-> 0, err |-> "nil", out |-> <<>>]
    /\ ncalls = 0
    /\ DevInit
    /\ AuxInit

AddDevice(id) ==
    /\ ncalls < MaxCalls
    /\ \E res \in {AddDeviceOp(backend, last, rows, id)} :
           /\ last' = res.last
           /\ rows' = res.rows
           /\ ret' = [op |-> "AddDevice", id |-> id, n |-> 0, err |-> res.err, out |-> <<>>]
    /\ ncalls' = ncalls + 1
    /\ UNCHANGED backend
    /\ UNCHANGED <<devvars, auxvars>>

PutData(id, vs) ==
    /\ ncalls < MaxCalls
    /\ \E res \in {PutDataOp(backend, last, rows, id, vs)} :
           /\ last' = res.last
           /\ rows' = res.rows
           /\ ret' = [op |-> "PutData", id |-> id, n |-> Len(vs), err |-> res.err, out |-> res.trace]
    /\ ncalls' = ncalls + 1
    /\ UNCHANGED backend
    /\ UNCHANGED <<devvars, auxvars>>

Data(id, beg, end) ==
    /\ ncalls < MaxCalls
    /\ \E res \in {DataOp(backend, rows, id, beg, end)} :
           ret' = [op |-> "Data", id |-> id, n |-> 0, err |-> res.err, out |-> res.out]
    /\ ncalls' = ncalls + 1
    /\ UNCHANGED <<backend, last, rows>>
    /\ UNCHANGED <<devvars, auxvars>>

LastCall(id) ==
    /\ ncalls < MaxCalls
    /\ \E res \in {Last(last, id)} :
           ret' = [op |-> "Last", id |-> id, n |-> 0, err |-> res.err,
                   out |-> IF res.err = "nil" THEN <<res.data>> ELSE <<>>]
    /\ ncalls' = ncalls + 1
    /\ UNCHANGED <<backend, last, rows>>
    /\ UNCHANGED <<devvars, auxvars>>

DevicesCall ==
    /\ ncalls < MaxCalls
    /\ \E keys \in MapOrders(DOMAIN last) :
           ret' = [op |-> "Devices", id |-> "", n |-> 0, err |-> "nil", out |-> Devices(keys)]
    /\ ncalls' = ncalls + 1
    /\ UNCHANGED <<backend, last, rows>>
    /\ UNCHANGED <<devvars, auxvars>>

Next ==
    \/ \E id \in Ids : AddDevice(id)
    \/ \E id \in Ids, vs \in Batches : PutData(id, vs)
    \/ \E id \in Ids, beg \in Bounds, end \in Bounds : Data(id, beg, end)
    \/ \E id \in Ids : LastCall(id)
    \/ DevicesCall

Spec == Init /\ [][Next]_vars

\* The store opened with the bbolt backend.
InitBolt == Init /\ backend = "bolt"

SpecBolt == InitBolt /\ [][Next]_vars

(***************************************************************************)
(* The bbolt store on a file whose records can be damaged behind the       *)
(* store's back: Corrupt cuts the last byte off one stored value.  What    *)
(* Data meets depends on the records in the bucket, not on the batches     *)
(* that put them there: PutData is called with batches of at most two      *)
(* samples.                                                                *)
(***************************************************************************)
ShortBatches == {vs \in Batches : Len(vs) <= 2}

Corrupt(id, k) ==
    /\ backend = "bolt"
    /\ id \in DOMAIN rows
    /\ k \in DOMAIN rows[id]
    /\ Len(rows[id][k]) = dataSize
    /\ rows' = [rows EXCEPT ![id][k] = SubSeq(@, 1, dataSize - 1)]
    /\ ret' = [op |-> "Corrupt", id |-> id, n |-> 0, err |-> "nil", out |-> <<>>]
    /\ UNCHANGED <<backend, last, ncalls>>
    /\ UNCHANGED <<devvars, auxvars>>

NextCorrupt ==
    \/ \E id \in Ids : AddDevice(id)
    \/ \E id \in Ids, vs \in ShortBatches : PutData(id, vs)
    \/ \E id \in Ids, beg \in Bounds, end \in Bounds : Data(id, beg, end)
    \/ \E id \in Ids : LastCall(id)
    \/ DevicesCall
    \/ \E id \in Ids, t \in Times : Corrupt(id, Key(t))

SpecCorrupt == InitBolt /\ [][NextCorrupt]_vars

(***************************************************************************)
(* The notifications the device may send while channel id is read.         *)
(***************************************************************************)
\* A raw value and the "no data" value of a channel, as sent.
Reading(id) == IF id = paramCO2 THEN 1500 ELSE 7

Value(id) == PutUint(Reading(id), Width(id))

NoDataValue(id) == PutUint(IF id = paramH THEN 255 ELSE 65535, Width(id))

RECURSIVE Flatten(_)
Flatten(ss) == IF ss = <<>> THEN <<>> ELSE Head(ss) \o Flatten(Tail(ss))

\* The payloads of cnt values, and the payload of cnt values cut one byte
\* short.
Payloads(id, cnt) ==
    {Flatten(vs) : vs \in [1..cnt -> {Value(id), NoDataValue(id)}]}

CutPayload(id, cnt) ==
    SubSeq(Flatten([i \in 1..cnt |-> Value(id)]), 1, cnt * Width(id) - 1)

Header(param, start, cnt) == <<param>> \o PutUint(start, 2) \o <<cnt>>

\* A channel other than id.
Other(id) == IF id = paramCO2 THEN paramT ELSE id + 1

\* Start indices as sent (1-based): 0, the slots, and one past the last.
Starts == 0..(MaxN + 1)

Frames(id) ==
    UNION {{Header(id, start, cnt) \o body : body \in Payloads(id, cnt)} :
               start \in Starts, cnt \in Counts}
    \cup {Header(id, 1, cnt) \o CutPayload(id, cnt) : cnt \in Counts}
    \cup {Header(id, 1, 0), Header(id, 0, 0)}
    \cup {Header(Other(id), 1, 1) \o Value(id), Header(Other(id), 1, 0), <<Other(id)>>}
    \cup {<<>>, <<id>>, <<id, 1>>, <<id, 1, 0>>}

FramesOf == [id \in {paramT, paramH, paramP, paramCO2} |-> Frames(id)]

(***************************************************************************)
(* ReadAll, run by aranet4-daq: server.run calls readn, which runs ReadAll *)
(* under a deadline, and uploads what it returned.                         *)
(***************************************************************************)
\* The process is alive and server.run is in readn.
Running == daq.st = "readn" /\ pc # "panic"

\* ReadAll up to the first readN: Since, Interval and NumData succeed.
ReadAllStart ==
    /\ Running
    /\ pc = "start"
    /\ \E now \in Clock, ago \in Agos, delta \in Deltas, n \in 0..MaxN :
           /\ loc' = [now |-> now, ago |-> ago, delta |-> delta, n |-> n]
           /\ dst' = MakeSlots(n)
    /\ pc' = "write"
    /\ ch' = 1
    /\ UNCHANGED <<errs, rerr, subs, cmds, ev, nchunks, readall, daq>>
    /\ UNCHANGED <<storevars, auxvars>>

\* Since, Interval or NumData fails.
ReadAllStartFail ==
    /\ Running
    /\ pc = "start"
    /\ \E e \in {"could not get last measurement update", "could not get sampling",
                 "could not get total number of samples"} :
           readall' = ReadAllFail(e, dst)
    /\ pc' = "done"
    /\ UNCHANGED <<ch, loc, dst, errs, rerr, subs, cmds, ev, nchunks, daq>>
    /\ UNCHANGED <<storevars, auxvars>>

\* readN up to Subscribe: the command is written.
readNWrite ==
    /\ Running
    /\ pc = "write"
    /\ cmds' = Append(cmds, cmd(Params[ch]))
    /\ pc' = "subscribe"
    /\ UNCHANGED <<ch, loc, dst, errs, rerr, subs, ev, nchunks, readall, daq>>
    /\ UNCHANGED <<storevars, auxvars>>

\* readN fails before Subscribe: the command could not be written, or it
\* was written and the time-series characteristic is not found.
readNWriteFail ==
    /\ Running
    /\ pc = "write"
    /\ \E e \in {"could not write command", "could not get characteristic"} :
           /\ cmds' = IF e = "could not write command" THEN cmds
                      ELSE Append(cmds, cmd(Params[ch]))
           /\ readall' = ReadAllFail(e, dst)
    /\ pc' = "done"
    /\ UNCHANGED <<ch, loc, dst, errs, rerr, subs, ev, nchunks, daq>>
    /\ UNCHANGED <<storevars, auxvars>>

\* errs is made and the handler subscribed; readN then blocks in <-errs.
readNSubscribe ==
    /\ Running
    /\ pc = "subscribe"
    /\ errs' = "open"
    /\ rerr' = "nil"
    /\ subs' = subs \cup {Params[ch]}
    /\ pc' = "wait"
    /\ UNCHANGED <<ch, loc, dst, cmds, ev, nchunks, readall, daq>>
    /\ UNCHANGED <<storevars, auxvars>>

\* Subscribe fails: readN returns before its defer is set up.
readNSubscribeFail ==
    /\ Running
    /\ pc = "subscribe"
    /\ readall' = ReadAllFail("could not subscribe to characteristic", dst)
    /\ pc' = "done"
    /\ UNCHANGED <<ch, loc, dst, errs, rerr, subs, cmds, ev, nchunks, daq>>
    /\ UNCHANGED <<storevars, auxvars>>

\* What becomes of a notification whose handler came to h.res: the handler
\* panics by itself, on close(errs) of a closed channel or on a send on a
\* closed channel; its send is received by readN, or no receiver is left
\* and it blocks for ever.
Outcome(h) ==
    IF h.res \in {"panic", "nil"} THEN h.res
    ELSE IF h.res = "close" THEN (IF errs = "closed" THEN "panic" ELSE "close")
    ELSE IF errs = "closed" THEN "panic"
    ELSE IF rerr # "nil" THEN "blocked"
    ELSE h.res

\* The device notifies the frame p while the subscription is open.
Notify(p) ==
    /\ Running
    /\ pc = "wait"
    /\ ev.res # "blocked"
    /\ \E h \in {handler(dst, Params[ch], p)} :
       \E o \in {Outcome(h)} :
           /\ o = "nil" => nchunks < MaxChunks
           /\ pc' = IF o = "panic" THEN "panic" ELSE pc
           /\ dst' = h.dst
           /\ errs' = IF o = "close" THEN "closed" ELSE errs
           /\ rerr' = IF o \in {"panic", "nil", "close", "blocked"} THEN rerr ELSE o
           /\ ev' = [hdr |-> SubSeq(p, 1, min(4, Len(p))), res |-> o, logged |-> h.logged]
           /\ nchunks' = IF o = "nil" THEN nchunks + 1 ELSE nchunks
    /\ UNCHANGED <<ch, loc, subs, cmds, readall, daq>>
    /\ UNCHANGED <<storevars, auxvars>>

\* readN receives from errs and returns, its deferred Unsubscribe runs, and
\* ReadAll goes on: it returns the error, turns to the next channel, or
\* fills in the slots and returns them.
readNReturn ==
    /\ Running
    /\ pc = "wait"
    /\ rerr # "nil" \/ errs = "closed"
    /\ subs' = Unsubscribe(subs, Params[ch])
    /\ errs' = "none"
    /\ IF rerr # "nil"
       THEN /\ readall' = ReadAllFail(rerr, dst)
            /\ pc' = "done"
            /\ ch' = ch
       ELSE IF ch < Len(Params)
       THEN /\ pc' = "write"
            /\ ch' = ch + 1
            /\ readall' = readall
       ELSE /\ readall' = ReadAllOk(loc, dst)
            /\ pc' = "done"
            /\ ch' = ch
    /\ UNCHANGED <<loc, dst, rerr, cmds, ev, nchunks, daq>>
    /\ UNCHANGED <<storevars, auxvars>>

\* server.run after readn: the samples are uploaded, or the error ends the
\* process.
RunUpload ==
    /\ Running
    /\ pc = "done"
    /\ daq' = IF readall.err = "nil" THEN [st |-> "uploaded", vs |-> readall.out]
              ELSE [st |-> "fatal", vs |-> <<>>]
    /\ UNCHANGED <<pc, ch, loc, dst, errs, rerr, subs, cmds, ev, nchunks, readall>>
    /\ UNCHANGED <<storevars, auxvars>>

\* The deadline of run expires before ReadAll has returned: readn returns
\* the deadline error and the process ends.
RunTimeout ==
    /\ Running
    /\ pc # "done"
    /\ daq' = [st |-> "fatal", vs |-> <<>>]
    /\ UNCHANGED <<pc, ch, loc, dst, errs, rerr, subs, cmds, ev, nchunks, readall>>
    /\ UNCHANGED <<storevars, auxvars>>

NextDev ==
    \/ ReadAllStart
    \/ ReadAllStartFail
    \/ readNWrite
    \/ readNWriteFail
    \/ readNSubscribe
    \/ readNSubscribeFail
    \/ \E p \in FramesOf[Params[ch]] : Notify(p)
    \/ readNReturn
    \/ RunUpload
    \/ RunTimeout

SpecDev == InitBolt /\ [][NextDev]_vars

\* The steps the program takes by itself are taken; the device need not
\* send anything.
SpecDevFair ==
    SpecDev /\ WF_vars(ReadAllStart \/ readNWrite \/ readNSubscribe \/ readNReturn
                       \/ RunUpload \/ RunTimeout)

(***************************************************************************)
(* The record codec at work: a sample is encoded into a buffer, the buffer *)
(* (whole, cut or extended) is decoded into a destination; PutData keeps a *)
(* sample as the last one; the SQLite query scans a row.                   *)
(***************************************************************************)
\* The samples handed to the codec: the ends of every field's range, a
\* negative temperature next to zero, the battery level ReadAll sets (-1)
\* and a Quality that is not the one of the CO2 level.
Records ==
    [Time     : {0 - 1, 250},
     H        : {0, 255},
     P        : {0, 65535},
     T        : {0 - 32768, 0 - 1, 2150, 32767},
     CO2      : {0, 1000, 65535},
     Battery  : {0 - 1, 0, 255},
     Quality  : {0, 3},
     Interval : {0, 255}]

\* The lengths of the buffers handed to marshalBinary.
BufLens == {dataSize - 1, dataSize, dataSize + 1}

\* What a buffer holds before marshalBinary is called with it: 0xAA, but for
\* bytes 4 to 8, zero so that the time they would decode to is a small one.
Blank(n) == [i \in 1..n |-> IF i \in 4..8 THEN 0 ELSE 170]

Convs == {"wrap", "sat"}

Marshal(v, n, conv) ==
    /\ codec.op = "none"
    /\ \E res \in {marshalRecord(conv, v, Blank(n))} :
           codec' = [codec EXCEPT !.op = "marshal", !.src = v, !.conv = conv,
                                  !.buf = res.p, !.err = res.err,
                                  !.enc = (res.err = "nil")]
    /\ UNCHANGED <<storevars, devvars, rt, lp, mu, gs, mgrs>>

\* k = 0: the buffer as it is; k < 0: its last byte cut; k > 0: a byte added.
Unmarshal(k) ==
    /\ codec.op = "marshal"
    /\ \E p \in {IF k = 0 THEN codec.buf
                 ELSE IF k < 0 THEN SubSeq(codec.buf, 1, Len(codec.buf) - 1)
                 ELSE Append(codec.buf, 0)} :
       \E res \in {unmarshalRecord(codec.dst, p)} :
           codec' = [codec EXCEPT !.op = "unmarshal", !.buf = p, !.err = res.err,
                                  !.enc = (codec.enc /\ k = 0), !.dst = res.data]
    /\ UNCHANGED <<storevars, devvars, rt, lp, mu, gs, mgrs>>

CacheLast(v) ==
    /\ codec.op = "none"
    /\ codec' = [codec EXCEPT !.op = "cache", !.src = v, !.cached = cacheLast(v)]
    /\ UNCHANGED <<storevars, devvars, rt, lp, mu, gs, mgrs>>

Scan(v) ==
    /\ codec.op = "none"
    /\ codec' = [codec EXCEPT !.op = "scan", !.src = v, !.dst = sqliteScan(v)]
    /\ UNCHANGED <<storevars, devvars, rt, lp, mu, gs, mgrs>>

NextCodec ==
    \/ \E v \in Records, n \in BufLens, conv \in Convs : Marshal(v, n, conv)
    \/ \E k \in {0 - 1, 0, 1} : Unmarshal(k)
    \/ \E v \in Records : CacheLast(v)
    \/ \E v \in Records : Scan(v)

SpecCodec == InitBolt /\ [][NextCodec]_vars

(***************************************************************************)
(* retry called with any n, f returning nil or one of three errors.        *)
(***************************************************************************)
Errors == {"link error", "protocol error", "timeout"}

Outcomes == {"nil"} \cup Errors

Tries == (0 - 1)..MaxTries

RetryCall(n) ==
    /\ lp.st = "idle"
    /\ rt.st \in {"idle", "returned"}
    /\ rt' = retryEnter(n)
    /\ UNCHANGED <<storevars, devvars, codec, lp, mu, gs, mgrs>>

RetryAttempt(out) ==
    /\ rt.st = "loop"
    /\ rt.i < rt.n
    /\ rt' = retryAttempt(rt, out)
    /\ UNCHANGED <<storevars, devvars, codec, lp, mu, gs, mgrs>>

RetryExit ==
    /\ rt.st = "loop"
    /\ ~(rt.i < rt.n)
    /\ rt' = retryExit(rt)
    /\ UNCHANGED <<storevars, devvars, codec, lp, mu, gs, mgrs>>

NextRetry ==
    \/ \E n \in Tries : RetryCall(n)
    \/ \E out \in Outcomes : RetryAttempt(out)
    \/ RetryExit

SpecRetry == InitBolt /\ [][NextRetry]_vars

(***************************************************************************)
(* The scheduling loops: Server.loop, which runs every acquisition under   *)
(* retry, and server.run of aranet4-daq, which reads once per tick.        *)
(***************************************************************************)
\* Server.loop starts: retry(5, srv.interval).
ServerLoopStart ==
    /\ lp.st = "idle"
    /\ rt.st = "idle"
    /\ lp' = [lp EXCEPT !.prog = "server", !.st = "interval"]
    /\ rt' = retryEnter(loopTries)
    /\ UNCHANGED <<storevars, devvars, codec, mu, gs, mgrs>>

\* A call of retry made by Server.loop has returned: a failure to fetch the
\* interval panics, a failed update is logged and the loop waits for a tick.
ServerLoopRetried ==
    /\ lp.prog = "server"
    /\ lp.st \in {"interval", "history", "cycle"}
    /\ rt.st = "returned"
    /\ IF lp.st = "interval"
       THEN IF rt.ret # "nil"
            THEN /\ lp' = [lp EXCEPT !.st = "panic"]
                 /\ rt' = retryIdle
            ELSE /\ lp' = [lp EXCEPT !.st = "history"]
                 /\ rt' = retryEnter(loopTries)
       ELSE /\ lp' = [lp EXCEPT !.st = "wait", !.cycle = rt.ret,
                                !.logged = IF rt.ret # "nil" THEN @ + 1 ELSE @]
            /\ rt' = retryIdle
    /\ UNCHANGED <<storevars, devvars, codec, mu, gs, mgrs>>

\* A tick of Server.loop: retry(5, srv.update(1)).
ServerTick ==
    /\ lp.prog = "server"
    /\ lp.st = "wait"
    /\ lp.ticks < MaxTicks
    /\ lp' = [lp EXCEPT !.st = "cycle", !.ticks = @ + 1]
    /\ rt' = retryEnter(loopTries)
    /\ UNCHANGED <<storevars, devvars, codec, mu, gs, mgrs>>

\* server.run of aranet4-daq up to its loop: readn returns out, upload up.
\* An error makes run return it, and main ends the process with log.Fatal.
DaqRun(out, up) ==
    /\ lp.st = "idle"
    /\ rt.st = "idle"
    /\ lp' = [lp EXCEPT !.prog = "daq",
                        !.cycle = IF out # "nil" THEN out ELSE up,
                        !.st = IF out # "nil" \/ up # "nil" THEN "fatal" ELSE "wait"]
    /\ UNCHANGED <<storevars, devvars, codec, rt, mu, gs, mgrs>>

\* A tick of server.run: read returns out (a timeout is
\* context.DeadlineExceeded), upload up.  A timeout is logged and the loop
\* continues; any other error makes run return it.
DaqTick(out, up) ==
    /\ lp.prog = "daq"
    /\ lp.st = "wait"
    /\ lp.ticks < MaxTicks
    /\ lp' = IF out = "timeout"
             THEN [lp EXCEPT !.ticks = @ + 1, !.cycle = out, !.logged = @ + 1]
             ELSE IF out # "nil"
             THEN [lp EXCEPT !.ticks = @ + 1, !.cycle = out, !.st = "fatal"]
             ELSE IF up # "nil"
             THEN [lp EXCEPT !.ticks = @ + 1, !.cycle = "upload error", !.st = "fatal"]
             ELSE [lp EXCEPT !.ticks = @ + 1, !.cycle = "nil"]
    /\ UNCHANGED <<storevars, devvars, codec, rt, mu, gs, mgrs>>

NextLoop ==
    \/ ServerLoopStart
    \/ \E out \in Outcomes : RetryAttempt(out)
    \/ RetryExit
    \/ ServerLoopRetried
    \/ ServerTick
    \/ \E out \in Outcomes, up \in {"nil", "link error"} : DaqRun(out, up)
    \/ \E out \in Outcomes, up \in {"nil", "link error"} : DaqTick(out, up)

SpecLoop == InitBolt /\ [][NextLoop]_vars

(***************************************************************************)
(* The HTTP server of arasrv once NewServer has returned: requests are     *)
(* served on goroutines of their own.  handleRoot and handleAPI take       *)
(* srv.mu.Lock and read the rows of a device; handleIngest calls           *)
(* Server.write, which takes srv.mu.Lock, calls PutData and then Last; the *)
(* plot handlers take srv.mu.RLock.  PutData assigns db.last[id] sample by *)
(* sample inside the Update transaction, whose commit makes the records    *)
(* visible.                                                                *)
(***************************************************************************)
\* The store NewServer was given: every device holds a sample.
InitSrv ==
    /\ backend = "bolt"
    /\ \E res \in {BoltAddDevice(Empty, Empty, "dev1")} :
       \E put \in {BoltPutData(res.last, res.rows, "dev1", <<[t |-> 250, co2 |-> 500]>>)} :
           /\ last = put.last
           /\ rows = put.rows
    /\ ret = [op |-> "Open", id |-> "", n |-> 0, err |-> "nil", out |-> <<>>]
    /\ ncalls = 0
    /\ DevInit
    /\ AuxInit

\* Lock taken whatever the state of the lock.
CanLock_Always(m) == TRUE

\* Lock taken while readers hold the lock.
CanLock_IgnoresReaders(m) == m.w = "none"

\* sync.RWMutex: Lock succeeds when nobody holds the lock.
CanLock(m) == m.w = "none" /\ m.r = {}

\* RLock taken whatever the state of the lock.
CanRLock_IgnoresWriter(m) == TRUE

\* sync.RWMutex: RLock succeeds when no writer holds the lock.
CanRLock(m) == m.w = "none"

\* The HTTP statuses the handlers answer.
StatusOK == 200

StatusBadRequest == 400

StatusInternalServerError == 500

Methods == {"GET", "POST"}

\* What a handler does before it asks for the lock, as the status it
\* answers at once, 0 when it goes on: handleIngest refuses a request that
\* is not a POST or whose device has no manager, handleRoot and handleAPI
\* one whose device has no manager; the plot handlers take the lock first.
\* handleIngest answering whatever the method of the request.
preLock_AnyMethod(m, req, id, method) ==
    IF req \in {"ingest", "root"} /\ id \notin DOMAIN m THEN StatusBadRequest ELSE 0

preLock(m, req, id, method) ==
    IF req = "ingest" /\ method # "POST" THEN StatusBadRequest
    ELSE IF req \in {"ingest", "root"} /\ id \notin DOMAIN m THEN StatusBadRequest
    ELSE 0

\* A request arrives and its handler runs up to the lock, or answers.
Request(g, req, id, method) ==
    /\ ncalls < MaxCalls
    /\ gs[g].pc = "idle"
    /\ \E st \in {preLock(mgrs, req, id, method)} :
           gs' = [gs EXCEPT ![g] = [Idle EXCEPT !.pc = IF st = 0 THEN "lock" ELSE "reply",
                                                !.req = req, !.id = id, !.method = method,
                                                !.status = st]]
    /\ ncalls' = ncalls + 1
    /\ UNCHANGED <<backend, last, rows, ret, devvars, codec, rt, lp, mu, mgrs>>

\* The handler has returned: the response is sent.
Reply(g) ==
    /\ gs[g].pc = "reply"
    /\ gs' = [gs EXCEPT ![g] = Idle]
    /\ UNCHANGED <<storevars, devvars, codec, rt, lp, mu, mgrs>>

\* handleRoot, handleAPI: srv.mu.Lock().
RootLock(g) ==
    /\ gs[g].pc = "lock"
    /\ gs[g].req = "root"
    /\ CanLock(mu)
    /\ mu' = [mu EXCEPT !.w = g]
    /\ gs' = [gs EXCEPT ![g].pc = "rows"]
    /\ UNCHANGED <<storevars, devvars, codec, rt, lp, mgrs>>

\* mgr.rows: the range over db.Data; manager.plot then starts to write the
\* four buffers of the manager from the rows.
RootRows(g) ==
    /\ gs[g].pc = "rows"
    /\ \E got \in {DataOp(backend, rows, gs[g].id, 0, 0 - 1)} :
           /\ ret' = [op |-> "Data", id |-> gs[g].id, n |-> 0, err |-> got.err,
                      out |-> got.out]
           /\ gs' = [gs EXCEPT ![g].pc = IF got.err = "nil" THEN "regen" ELSE "unlock",
                               ![g].err = got.err]
           /\ mgrs' = IF got.err = "nil"
                      THEN [mgrs EXCEPT ![gs[g].id].plots = [st |-> "busy", of |-> got.out]]
                      ELSE mgrs
    /\ UNCHANGED <<backend, last, rows, ncalls, devvars, codec, rt, lp, mu>>

\* manager.plot returns: the four goroutines it started have written their
\* buffers and grp.Wait has returned; the page is written from mgr.last.
RootPlot(g) ==
    /\ gs[g].pc = "regen"
    /\ mgrs' = [mgrs EXCEPT ![gs[g].id].plots.st = "ready"]
    /\ gs' = [gs EXCEPT ![g].pc = "unlock"]
    /\ UNCHANGED <<storevars, devvars, codec, rt, lp, mu>>

\* Server.write: srv.mu.Lock(), the manager is looked up and a device
\* without one is an error; an empty batch returns at once, any other is
\* handed to PutData, which reads Last, sorts and opens its transaction.
WriteLock(g, vs) ==
    /\ gs[g].pc = "lock"
    /\ gs[g].req = "ingest"
    /\ CanLock(mu)
    /\ mu' = [mu EXCEPT !.w = g]
    /\ IF gs[g].id \notin DOMAIN mgrs
       THEN gs' = [gs EXCEPT ![g].pc = "unlock", ![g].n = Len(vs),
                             ![g].err = "no such device"]
       ELSE IF vs = <<>>
       THEN gs' = [gs EXCEPT ![g].pc = "unlock"]
       ELSE \E res \in {PutDataOp(backend, last, rows, gs[g].id, vs)} :
                gs' = [gs EXCEPT ![g].pc = "put", ![g].n = Len(vs), ![g].todo = res.trace,
                                 ![g].post = res.rows[gs[g].id], ![g].err = res.err]
    /\ UNCHANGED <<storevars, devvars, codec, rt, lp, mgrs>>

\* The loop of PutData reaches a sample that becomes the last one:
\* db.last[id] = v.
PutAssign(g) ==
    /\ gs[g].pc = "put"
    /\ gs[g].todo # <<>>
    /\ last' = [last EXCEPT ![gs[g].id] = Head(gs[g].todo)]
    /\ gs' = [gs EXCEPT ![g].todo = Tail(@), ![g].done = @ + 1]
    /\ UNCHANGED <<backend, rows, ret, ncalls, devvars, codec, rt, lp, mu, mgrs>>

\* The transaction of PutData commits (or, PutData having failed, nothing
\* is written).
PutCommit(g) ==
    /\ gs[g].pc = "put"
    /\ gs[g].todo = <<>>
    /\ rows' = IF gs[g].err = "nil" THEN [rows EXCEPT ![gs[g].id] = gs[g].post] ELSE rows
    /\ gs' = [gs EXCEPT ![g].pc = "after"]
    /\ UNCHANGED <<backend, last, ret, ncalls, devvars, codec, rt, lp, mu, mgrs>>

\* What Server.write leaves in mgr.last after PutData: nothing new.
writeLast_Keeps(m, id, perr, lst) == m

\* What Server.write leaves in mgr.last after PutData: when PutData and
\* Last(id) have both succeeded, the sample Last returned.
writeLast(m, id, perr, lst) ==
    IF perr = "nil" /\ lst.err = "nil" THEN [m EXCEPT ![id].last = lst.data] ELSE m

\* Server.write after PutData: its error is returned, otherwise Last(id)
\* is read into mgr.last.
WriteLast(g) ==
    /\ gs[g].pc = "after"
    /\ \E lst \in {Last(last, gs[g].id)} :
           /\ ret' = IF gs[g].err # "nil" THEN ret
                     ELSE [op |-> "Last", id |-> gs[g].id, n |-> 0, err |-> lst.err,
                           out |-> <<lst.data>>]
           /\ gs' = [gs EXCEPT ![g].pc = "unlock",
                               ![g].err = IF gs[g].err # "nil" THEN @ ELSE lst.err]
           /\ mgrs' = writeLast(mgrs, gs[g].id, gs[g].err, lst)
    /\ UNCHANGED <<backend, last, rows, ncalls, devvars, codec, rt, lp, mu>>

\* The deferred srv.mu.Unlock(); the handler answers 500 on an error and
\* 200 otherwise.
Unlock(g) ==
    /\ gs[g].pc = "unlock"
    /\ mu' = [mu EXCEPT !.w = "none"]
    /\ gs' = [gs EXCEPT ![g].pc = "reply",
                        ![g].status = IF gs[g].err = "nil" THEN StatusOK
                                      ELSE StatusInternalServerError]
    /\ UNCHANGED <<storevars, devvars, codec, rt, lp, mgrs>>

\* A plot handler: srv.mu.RLock().
PlotRLock(g) ==
    /\ gs[g].pc = "lock"
    /\ gs[g].req = "plot"
    /\ CanRLock(mu)
    /\ mu' = [mu EXCEPT !.r = @ \cup {g}]
    /\ gs' = [gs EXCEPT ![g].pc = "plot"]
    /\ UNCHANGED <<storevars, devvars, codec, rt, lp, mgrs>>

\* The manager is looked up, 400 when there is none; the buffer of the
\* plot is written to the response; the deferred srv.mu.RUnlock().
PlotRUnlock(g) ==
    /\ gs[g].pc = "plot"
    /\ mu' = [mu EXCEPT !.r = @ \ {g}]
    /\ gs' = [gs EXCEPT ![g].pc = "reply",
                        ![g].status = IF gs[g].id \in DOMAIN mgrs THEN StatusOK
                                      ELSE StatusBadRequest]
    /\ UNCHANGED <<storevars, devvars, codec, rt, lp, mgrs>>

NextSrv ==
    \E g \in Goroutines :
        \/ \E req \in {"root", "ingest", "plot"}, id \in Ids, method \in Methods :
               (req # "ingest" => method = "GET") /\ Request(g, req, id, method)
        \/ Reply(g)
        \/ RootLock(g)
        \/ RootRows(g)
        \/ RootPlot(g)
        \/ \E vs \in ShortBatches : WriteLock(g, vs)
        \/ PutAssign(g)
        \/ PutCommit(g)
        \/ WriteLast(g)
        \/ Unlock(g)
        \/ PlotRLock(g)
        \/ PlotRUnlock(g)

SpecSrv == InitSrv /\ [][NextSrv]_vars

(***************************************************************************)
(* What the store holds and returns, for the properties below.             *)
(***************************************************************************)
\* The samples stored in the namespace of id.
Stored(id) ==
    IF backend = "bolt"
    THEN {unmarshalBinary(rows[id][k]).data : k \in DOMAIN rows[id]}
    ELSE {rows[id][k] : k \in DOMAIN rows[id]}

StoredTimes(id) == {v.t : v \in Stored(id)}

Max(S) == CHOOSE x \in S : \A y \in S : y <= x

\* Two times within the tolerance window of each other.
Near(a, b) == abs(a - b) < timeResolution

Elems(s) == {s[i] : i \in 1..Len(s)}

\* C1: calling PutData a second time with the identical batch leaves the
\* sequence yielded by Data(id,0,0) and the value of Last(id) as they were
\* after the first call, for every namespace, store state and batch.
C1_PutDataIdempotent ==
    \A id \in DOMAIN last, vs \in Batches :
        LET r1 == PutDataOp(backend, last, rows, id, vs)
            r2 == PutDataOp(backend, r1.last, r1.rows, id, vs)
        IN  /\ DataOp(backend, r2.rows, id, 0, 0) = DataOp(backend, r1.rows, id, 0, 0)
            /\ Last(r2.last, id) = Last(r1.last, id)

\* C2: no two samples stored in the same namespace have timestamps within
\* the tolerance window of each other.
C2_NoNearDuplicates ==
    \A id \in DOMAIN rows :
        \A a \in StoredTimes(id), b \in StoredTimes(id) : a # b => ~Near(a, b)

\* C3: after a PutData that succeeds, Last(id) is the sample with the
\* greatest Time among the samples stored before and the batch.
C3_LastIsMaximum ==
    \A id \in DOMAIN last, vs \in Batches :
        LET r1 == PutDataOp(backend, last, rows, id, vs)
            ts == StoredTimes(id) \cup {v.t : v \in Elems(vs)}
        IN  (r1.err = "nil" /\ ts # {}) =>
                /\ Last(r1.last, id).err = "nil"
                /\ Last(r1.last, id).data.t = Max(ts)

\* Strictly ascending by Time.
Ascends(out) == \A i \in 1..(Len(out) - 1) : out[i].t < out[i + 1].t

\* C4: the sequence yielded by Data(id, beg, end) is strictly ascending by
\* Time in every reachable store state.
C4_DataAscending ==
    \A id \in DOMAIN rows, beg \in Bounds, end \in Bounds :
        Ascends(DataOp(backend, rows, id, beg, end).out)

\* C5: Data(id, beg, end) yields exactly the stored samples with beg <= Time
\* and, when end is non-zero, Time < end; a zero bound is no constraint.
C5_DataHalfOpenRange ==
    \A id \in DOMAIN rows, beg \in Bounds, end \in Bounds :
        LET res == DataOp(backend, rows, id, beg, end)
        IN  /\ res.err = "nil"
            /\ Elems(res.out) =
                   {v \in Stored(id) : beg <= v.t /\ (end # 0 => v.t < end)}
            /\ Len(res.out) = Cardinality(Elems(res.out))

\* C6: a PutData call returns no error, adds only records that lie after the
\* pre-call Last(id) by the tolerance, and leaves every record stored by an
\* earlier call as it was.
C6_PutDataWritesOnlyNewer ==
    [][\A id \in DOMAIN rows :
          (ret'.op = "PutData" /\ ret'.id = id) =>
              /\ ret'.err = "nil"
              /\ Stored(id) \subseteq Stored(id)'
              /\ \A v \in Stored(id)' \ Stored(id) : ltApprox(last[id], v)]_vars

\* Never moving back in Time.
NeverBack(out) == \A i \in 1..(Len(out) - 1) : out[i].t <= out[i + 1].t

\* C7: the Time of Last(id) never decreases across PutData calls, and within
\* one call the values assigned to the last-sample pointer never move back.
C7_LastPointerMonotone ==
    [][\A id \in DOMAIN last :
          (ret'.op = "PutData" /\ ret'.id = id) =>
              /\ last[id].t <= last'[id].t
              /\ NeverBack(<<last[id]>> \o ret'.out)]_vars

\* C8: AddDevice of a new id creates an empty namespace; AddDevice of an
\* existing id fails with the duplicate-device error and leaves the stored
\* samples and the last-sample value of the namespace unchanged.
C8_AddDevice ==
    [][\A id \in Ids :
          (ret'.op = "AddDevice" /\ ret'.id = id) =>
              IF id \in DOMAIN last
              THEN /\ ret'.err = "duplicate device"
                   /\ rows'[id] = rows[id]
                   /\ last'[id] = last[id]
              ELSE /\ ret'.err = "nil"
                   /\ Last(last', id).err = "no data"
                   /\ DataOp(backend', rows', id, 0, 0) = [err |-> "nil", out |-> <<>>]]_vars

\* C9: Last(id) returns the most recent stored sample; it returns the NoData
\* error exactly when the namespace exists and holds no sample, and another
\* error when the namespace does not exist.
C9_Last ==
    \A id \in Ids :
        LET res == Last(last, id)
        IN  /\ id \notin DOMAIN rows => res.err = "no such device"
            /\ id \in DOMAIN rows =>
                   /\ res.err = "no data" <=> Stored(id) = {}
                   /\ res.err \in {"nil", "no data"}
                   /\ res.err = "nil" =>
                          /\ res.data \in Stored(id)
                          /\ res.data.t = Max(StoredTimes(id))

\* C10: PutData(id, batch) and Data(id, beg, end) on an id without a
\* namespace return or yield an error, store nothing and create no
\* namespace, for every batch including the empty one.
C10_NoSuchDeviceSurfaced ==
    [][\A id \in Ids :
          (id \notin DOMAIN rows /\ ret'.id = id /\ ret'.op \in {"PutData", "Data"}) =>
              /\ ret'.err # "nil"
              /\ ret'.out = <<>>
              /\ rows' = rows
              /\ last' = last]_vars

\* PutData of the empty batch on an id without a namespace, in a store that
\* holds another namespace, has returned the no-such-device error.
C10_Witness ==
    /\ ret.op = "PutData"
    /\ ret.n = 0
    /\ ret.id \notin DOMAIN rows
    /\ ret.err = "no such device"
    /\ DOMAIN rows # {}

\* A stored value that unmarshalBinary rejects.
Corrupted(p) == Len(p) # dataSize

\* C11: when a record stored in the namespace cannot be decoded (its length
\* is not 17 bytes), Data(id, beg, end) yields an error and no sample, for
\* every range, instead of skipping the record and yielding the others.
C11_DataFailsFastOnCorruption ==
    \A id \in DOMAIN rows, beg \in Bounds, end \in Bounds :
        (\E k \in DOMAIN rows[id] : Corrupted(rows[id][k])) =>
            LET res == DataOp(backend, rows, id, beg, end)
            IN  res.err # "nil" /\ res.out = <<>>

\* Data has failed on a namespace that holds a corrupted record next to an
\* intact one.
C11_Witness ==
    /\ ret.op = "Data"
    /\ ret.err = "could not read rows"
    /\ ret.out = <<>>
    /\ \E k \in DOMAIN rows[ret.id] : Corrupted(rows[ret.id][k])
    /\ \E k \in DOMAIN rows[ret.id] : ~Corrupted(rows[ret.id][k])

\* C12: Devices() returns the ids for which a namespace exists, each once,
\* in ascending order, in every state reached by AddDevice calls and
\* whatever the order in which the map of devices is ranged over.
C12_DevicesSortedExact ==
    \A keys \in MapOrders(DOMAIN last) :
        LET out == Devices(keys)
        IN  /\ Elems(out) = DOMAIN rows
            /\ Len(out) = Cardinality(DOMAIN rows)
            /\ \A i \in 1..(Len(out) - 1) : StringLess(out[i], out[i + 1])

\* Devices() has returned both ids of a store that holds two namespaces.
C12_Witness ==
    /\ ret.op = "Devices"
    /\ ret.out = <<"dev1", "dev2">>
    /\ ncalls = MaxCalls

(***************************************************************************)
(* The reconstruction of the history.                                      *)
(***************************************************************************)
\* ReadAll has returned without an error.
ReadAllSucceeded == pc = "done" /\ readall.err = "nil"

\* C13: a successful ReadAll with count N, elapsed time ago and interval
\* delta > 0 returns exactly N samples, sample i (from 0) at
\* now - ago - (N-1)*delta + i*delta: strictly ascending, delta apart, the
\* last one at now - ago, and none for N = 0.
C13_ReconstructionTimes ==
    (ReadAllSucceeded /\ loc.delta > 0) =>
        LET out == readall.out
            N   == loc.n
        IN  /\ Len(out) = N
            /\ \A i \in 0..(N - 1) :
                   out[i + 1].Time = loc.now - loc.ago - (N - 1) * loc.delta + i * loc.delta
            /\ \A i \in 1..(N - 1) : out[i + 1].Time - out[i].Time = loc.delta
            /\ \A i \in 1..(N - 1) : out[i].Time < out[i + 1].Time
            /\ N > 0 => out[N].Time = loc.now - loc.ago

\* ReadAll has returned three samples for ago = 30 s and delta = 60 s:
\* they lie 150, 90 and 30 seconds before now.
C13_Witness ==
    /\ ReadAllSucceeded
    /\ loc.n = 3 /\ loc.ago = 30 /\ loc.delta = 60
    /\ [i \in 1..3 |-> loc.now - readall.out[i].Time] = <<150, 90, 30>>

\* The frames of channel id that hold a whole header and carry id.
Chunks(id) == {p \in FramesOf[id] : Len(p) >= 4 /\ p[1] = id}

\* The 1-based start index a frame reports, and its element count.
StartOf(p) == p[2] + 256 * p[3]

CountOf(p) == p[4]

\* The slots (from 1) in which two arrays of slots differ.
Written(before, after) == {i \in 1..Len(before) : after[i] # before[i]}

\* C14: whatever the start index (0 and values beyond N included) and the
\* count of a streamed chunk, the handler writes only to slots of
\* [chunkStart, chunkStart+count) that lie in [0, N), never indexes the
\* output out of bounds nor changes its length, and raises no error for the
\* elements it drops.
C14_ChunkClipped ==
    pc = "wait" =>
        \A p \in Chunks(Params[ch]) :
            LET h     == handler(dst, Params[ch], p)
                whole == Len(p) = 4 + CountOf(p) * Width(Params[ch])
            IN  /\ h.res # "panic"
                /\ Len(h.dst) = Len(dst)
                /\ \A i \in Written(dst, h.dst) :
                       /\ StartOf(p) <= i /\ i < StartOf(p) + CountOf(p)
                       /\ 1 <= i /\ i <= loc.n
                /\ whole => h.res \in {"nil", "close"}

\* A chunk of two values that starts at the last slot has been handled: the
\* first value is in the last slot, the second was dropped without an error.
C14_Witness ==
    /\ pc = "wait"
    /\ loc.n >= 1
    /\ ev.hdr = Header(Params[ch], loc.n, 2)
    /\ ev.res = "nil"
    /\ ev.logged = 0
    /\ dst[loc.n][Field(Params[ch])] = Reading(Params[ch])
    /\ Len(dst) = loc.n

C16_ChannelReadTimesOut == (pc = "wait") ~> (pc # "wait")

\* C17: when the read of one of the four channels fails, ReadAll returns an
\* error and no sample, whatever the earlier channels have filled in, and
\* only the whole batch of a ReadAll that succeeded is handed to upload.
C17_NoPartialResults ==
    /\ (pc = "done" /\ readall.err # "nil") => readall.out = <<>>
    /\ daq.st # "uploaded" => daq.vs = <<>>
    /\ daq.st = "uploaded" =>
           /\ ReadAllSucceeded
           /\ daq.vs = readall.out
           /\ Len(daq.vs) = loc.n

\* The read of the second channel has failed after the first channel had
\* filled a slot: ReadAll returned the error and server.run gave up.
C17_Witness ==
    /\ pc = "done"
    /\ ch = 2
    /\ readall.err = "invalid parameter"
    /\ readall.out = <<>>
    /\ loc.n >= 1
    /\ dst[1].T = 7
    /\ daq.st = "fatal"

\* C18: a notification whose first byte differs from the channel being read
\* (an end-of-stream marker of another channel included), handled while
\* readN waits with errs open and no error received, changes no slot, does
\* not close errs and hands readN the invalid-parameter error; readN then
\* returns that error and ReadAll returns it with no sample.
C18_ChannelMismatchFails ==
    [][/\ (/\ ev' # ev
           /\ errs = "open"
           /\ rerr = "nil"
           /\ Len(ev'.hdr) >= 1
           /\ ev'.hdr[1] # Params[ch])
          => (/\ dst' = dst
              /\ errs' = "open"
              /\ pc' = "wait"
              /\ ev'.res = "invalid parameter"
              /\ rerr' = "invalid parameter")
       /\ (pc = "wait" /\ rerr # "nil" /\ pc' = "done")
          => (readall'.err = rerr /\ readall'.out = <<>>)
       /\ (pc = "wait" /\ rerr # "nil") => pc' \in {"wait", "done", "panic"}]_vars

\* The end-of-stream marker of another channel has arrived during the read
\* of the first channel, and ReadAll has returned the error.
C18_Witness ==
    /\ pc = "done"
    /\ ch = 1
    /\ ev.hdr = Header(Other(paramT), 1, 0)
    /\ ev.res = "invalid parameter"
    /\ readall.err = "invalid parameter"

\* The payload of the values vs of channel id.
Payload(vs) == Flatten(vs)

\* C19: in a chunk that is whole, a "no data" value is tolerated: the
\* handler returns no error, every other value of the chunk that falls in
\* the output is decoded into its slot and the slots of the "no data" values
\* stay as they were; a value that cannot be decoded for another reason (the
\* payload ends inside it) makes the handler return an error without
\* touching the slot of that value.
C19_NoDataTolerated ==
    pc = "wait" =>
        LET id == Params[ch]
        IN  \A start \in 1..(MaxN + 1), cnt \in Counts :
                /\ \A vs \in [1..cnt -> {Value(id), NoDataValue(id)}] :
                       LET h == handler(dst, id, Header(id, start, cnt) \o Payload(vs))
                       IN  /\ h.res = "nil"
                           /\ \A k \in 1..cnt :
                                  LET i == start + k - 1
                                  IN  i <= loc.n =>
                                          IF vs[k] = Value(id)
                                          THEN h.dst[i][Field(id)] = Reading(id)
                                          ELSE h.dst[i] = dst[i]
                /\ start + cnt - 1 <= loc.n =>
                       LET h == handler(dst, id, Header(id, start, cnt) \o CutPayload(id, cnt))
                       IN  /\ h.res \notin {"nil", "close", "panic"}
                           /\ h.dst[start + cnt - 1] = dst[start + cnt - 1]

\* A chunk of two values, "no data" then a value, has been handled during
\* the read of the first channel: one line was logged, the second slot holds
\* the value, no error was sent and readN goes on waiting.
C19_Witness ==
    /\ pc = "wait"
    /\ ch = 1
    /\ loc.n >= 2
    /\ ev.hdr = Header(paramT, 1, 2)
    /\ ev.res = "nil"
    /\ ev.logged = 1
    /\ dst[1].T = 0
    /\ dst[2].T = 7
    /\ rerr = "nil"

\* C20: a notification too short to hold the 4-byte header makes the
\* handler return a decode error; it never makes the handler panic.
C20_ShortFrameIsError ==
    pc = "wait" =>
        \A p \in FramesOf[Params[ch]] :
            Len(p) < 4 => handler(dst, Params[ch], p).res \notin {"panic", "nil", "close"}

(***************************************************************************)
(* The record codec.                                                       *)
(***************************************************************************)
\* A sample whose fields lie in the ranges the record can hold.
InRange(v) ==
    /\ v.H \in 0..255
    /\ v.P \in 0..65535
    /\ v.T \in (0 - 32768)..32767
    /\ v.CO2 \in 0..65535
    /\ v.Battery \in 0..255
    /\ v.Interval \in 0..255

\* The decoding of the whole encoding of codec.src has just succeeded.
RoundTrip == codec.op = "unmarshal" /\ codec.enc /\ codec.err = "nil"

\* C21: for every sample within the ranges of the record (negative
\* temperatures included), decoding its 17-byte encoding gives back its
\* Time, Humidity, Pressure, Temperature, CO2, Battery and Interval, and a
\* Quality that is the one derived from its CO2.
C21_CodecRoundTrip ==
    (RoundTrip /\ InRange(codec.src)) =>
        /\ codec.dst.Time = codec.src.Time
        /\ codec.dst.H = codec.src.H
        /\ codec.dst.P = codec.src.P
        /\ codec.dst.T = codec.src.T
        /\ codec.dst.CO2 = codec.src.CO2
        /\ codec.dst.Battery = codec.src.Battery
        /\ codec.dst.Interval = codec.src.Interval
        /\ codec.dst.Quality = QualityFrom(codec.src.CO2)

\* C22: decoding from a buffer that is not 17 bytes long fails with the
\* short-buffer error and leaves the destination as it was; encoding into a
\* buffer that is not 17 bytes long fails with the same error and writes no
\* byte of it.
C22_ShortBufferRejected ==
    /\ []((codec.op = "marshal" /\ Len(codec.buf) # 17) =>
            (codec.err = "short buffer" /\ codec.buf = Blank(Len(codec.buf))))
    /\ [][(codec'.op = "unmarshal" /\ codec.op = "marshal" /\ Len(codec'.buf) # 17) =>
            (codec'.err = "short buffer" /\ codec'.dst = codec.dst)]_vars

\* A decoding from 16 bytes has failed and the destination holds what it held.
C22_Witness ==
    /\ codec.op = "unmarshal"
    /\ Len(codec.buf) = 16
    /\ codec.err = "short buffer"
    /\ codec.dst = PriorData

\* C23: the sample PutData keeps as the last one, the sample decoded from a
\* record and the sample scanned from a row all have the Quality derived
\* from their own CO2, whatever Quality the sample handed in carried.
C23_QualityDerived ==
    /\ codec.op = "cache" =>
           /\ codec.cached.Quality = QualityFrom(codec.cached.CO2)
           /\ codec.cached.CO2 = codec.src.CO2
    /\ (codec.op = "unmarshal" /\ codec.err = "nil") =>
           codec.dst.Quality = QualityFrom(codec.dst.CO2)
    /\ codec.op = "scan" =>
           /\ codec.dst.Quality = QualityFrom(codec.dst.CO2)
           /\ codec.dst.CO2 = codec.src.CO2

\* PutData has kept a sample that came with the Quality of another CO2 level.
C23_Witness ==
    /\ codec.op = "cache"
    /\ codec.src.CO2 = 65535
    /\ codec.src.Quality = 0
    /\ codec.cached.Quality = 3

(***************************************************************************)
(* The slots of a successful ReadAll.                                      *)
(***************************************************************************)
\* C24: in every slot of a successful ReadAll, Battery is -1, Quality is
\* the one derived from the CO2 of that slot and Interval is the interval
\* read from the device, hence the same in every slot.
C24_BatchPostProcessed ==
    ReadAllSucceeded =>
        \A i \in 1..Len(readall.out) :
            /\ readall.out[i].Battery = 0 - 1
            /\ readall.out[i].Quality = QualityFrom(readall.out[i].CO2)
            /\ readall.out[i].Interval = loc.delta
            /\ readall.out[i].Interval = readall.out[1].Interval

\* ReadAll has returned two slots, the first with the CO2 level it read from
\* the device and the second with none.
C24_Witness ==
    /\ ReadAllSucceeded
    /\ Len(readall.out) = 2
    /\ readall.out[1].CO2 = 1500 /\ readall.out[1].Quality = 3
    /\ readall.out[2].CO2 = 0 /\ readall.out[2].Quality = 1
    /\ readall.out[1].Battery = 0 - 1
    /\ readall.out[2].Interval = 60

(***************************************************************************)
(* retry.                                                                  *)
(***************************************************************************)
\* C25: retry(n, f) with n >= 1 runs f at most n times, one run after the
\* other; the first run that succeeds is the last one and retry returns
\* nil; when all n runs fail retry returns the error of the n-th run as it
\* is.
C25_RetrySupervisor ==
    /\ [](rt.n >= 1 =>
            /\ Len(rt.outs) <= rt.n
            /\ \A k \in 1..(Len(rt.outs) - 1) : rt.outs[k] # "nil"
            /\ (rt.outs # <<>> /\ rt.outs[Len(rt.outs)] = "nil") =>
                   (rt.st = "returned" /\ rt.ret = "nil")
            /\ (rt.st = "returned" /\ rt.ret # "nil") =>
                   (Len(rt.outs) = rt.n /\ rt.ret = rt.outs[rt.n])
            /\ (rt.st = "returned" /\ rt.ret = "nil") =>
                   rt.outs[Len(rt.outs)] = "nil")
    /\ [][(rt.st = "returned" /\ rt'.st = "returned") => rt'.outs = rt.outs]_vars
    /\ [][(rt.st = "loop" /\ rt'.st = "loop") => Len(rt'.outs) = Len(rt.outs) + 1]_vars

\* retry(3, f) has returned the third of three different errors.
C25_Witness ==
    /\ rt.st = "returned"
    /\ rt.n = 3
    /\ rt.outs = <<"link error", "protocol error", "timeout">>
    /\ rt.ret = "timeout"

(***************************************************************************)
(* The scheduling loops.                                                   *)
(***************************************************************************)
\* C28: when the cycle run at a tick ends in a protocol error or a timeout,
\* the loop has logged the error and still runs; the process has not been
\* ended by the error.
C28_LoopSurvivesFailedCycle ==
    (lp.ticks >= 1 /\ lp.st # "cycle" /\ lp.cycle \in {"protocol error", "timeout"}) =>
        /\ lp.st = "wait"
        /\ lp.logged >= 1

(***************************************************************************)
(* NoData.                                                                 *)
(***************************************************************************)
\* PutData of a batch into the namespace of id succeeds and stores it.
StoresBatch(id, vs) ==
    LET res == PutDataOp(backend, last, rows, id, vs)
    IN  /\ res.err = "nil"
        /\ Last(res.last, id).err = "nil"
        /\ DOMAIN res.rows[id] # DOMAIN rows[id]

\* C29: where Last(id) answers NoData (the namespace exists and is empty),
\* PutData of a batch into it stores the batch, and the initialisation of
\* the server over this store succeeds.
C29_NoDataIsNotFailure ==
    \A id \in DOMAIN last :
        (Last(last, id).err = "no data" /\ DOMAIN rows[id] = {}) =>
            /\ \A vs \in Batches : vs # <<>> => StoresBatch(id, vs)
            /\ \A order \in MapOrders(DOMAIN last) :
                   srvInit(backend, last, rows, order) = "nil"

(***************************************************************************)
(* The command of a streamed read.                                         *)
(***************************************************************************)
\* C30: the command written to start the read of a channel is 8 bytes: the
\* opcode 0x82, the channel id, two zero bytes, 1 as a little-endian uint16
\* and 0xFFFF as a little-endian uint16; the commands of the four channels
\* differ in the channel id only.
C30_CommandFrame ==
    /\ \A i \in 1..Len(cmds) :
           /\ i <= Len(Params)
           /\ cmds[i] = <<130, Params[i], 0, 0, 1, 0, 255, 255>>
    /\ \A i, j \in 1..Len(cmds) :
           \A k \in 1..8 : k # 2 => cmds[i][k] = cmds[j][k]
    /\ \A i, j \in 1..Len(cmds) : i # j => cmds[i][2] # cmds[j][2]

\* The commands of the four channels have been written.
C30_Witness ==
    /\ Len(cmds) = 4
    /\ {cmds[i][2] : i \in 1..4} = {paramT, paramH, paramP, paramCO2}
    /\ ReadAllSucceeded

(***************************************************************************)
(* The lock of the server around the store.                                *)
(***************************************************************************)
\* g is between its Lock (or RLock) and its Unlock.
InCS(g) == gs[g].pc \in {"rows", "regen", "put", "after", "unlock", "plot"}

\* g writes the last-sample cache or the records: Server.write in PutData.
WritesStore(g) == gs[g].pc \in {"put", "after"}

\* g reads the last-sample cache or the records: a range query in
\* handleRoot or handleAPI, Last in Server.write.
ReadsStore(g) == gs[g].pc \in {"rows", "after"}

\* g waits for srv.mu.
Waiting(g) == gs[g].pc = "lock"

\* No state in which the cache is written while another operation reads or
\* writes it.
NoWriteRace ==
    \A g, h \in Goroutines :
        (g # h /\ WritesStore(g)) => ~(WritesStore(h) \/ ReadsStore(h) \/ gs[h].pc = "rows")

Partial(g) == gs[g].pc = "put" /\ gs[g].done > 0

C31_GapFree ==
    (ReadAllSucceeded /\ loc.n >= 1) => nchunks >= Len(Params)

(***************************************************************************)
(* The notification handler and the channel errs.                          *)
(***************************************************************************)
\* The last frame made the handler panic on errs: the frame itself is one
\* the handler decodes without a panic.
PanicOnErrs ==
    /\ ev.res = "panic"
    /\ handler(dst, Params[ch], ev.hdr).res # "panic"

\* C36: whatever the device sends while a subscription is open, frames
\* after the terminator, a second terminator and frames after a first
\* erroneous frame included, the handler neither panics on errs (close of
\* a closed channel, send on a closed channel) nor blocks for ever in a
\* send nobody receives.
C36_HandlerSafe ==
    /\ ev.res # "blocked"
    /\ ~PanicOnErrs

(***************************************************************************)
(* The battery level of a reconstructed sample.                            *)
(***************************************************************************)
\* C37: a sample with Battery = -1 that is encoded into its record and
\* decoded again still has Battery = -1.
C37_UnknownBatteryKept ==
    (RoundTrip /\ codec.src.Battery = 0 - 1) => codec.dst.Battery = 0 - 1

(***************************************************************************)
(* retry with any n.                                                       *)
(***************************************************************************)
\* C38: retry(n, f) returns nil only if a run of f returned nil, for every
\* n, n <= 0 included.
C38_RetryNilMeansSuccess ==
    (rt.st = "returned" /\ rt.ret = "nil") =>
        \E k \in 1..Len(rt.outs) : rt.outs[k] = "nil"

(***************************************************************************)
(* The cached last sample and the stored rows.                             *)
(***************************************************************************)
\* Last(id) agrees with Data(id, 0, 0): NoData when there are no rows, the
\* final row otherwise.
Coherent(b, l, r, id) ==
    LET d  == DataOp(b, r, id, 0, 0)
        lv == Last(l, id)
    IN  d.err = "nil" =>
            IF d.out = <<>> THEN lv.err = "no data"
            ELSE lv.err = "nil" /\ lv.data = d.out[Len(d.out)]

\* C33: in every state reached by AddDevice and PutData calls, for every
\* device, Last(id) is the final sample of Data(id, 0, 0) when that is not
\* empty, and NoData when it is empty.
C33_CacheCoherent ==
    \A id \in DOMAIN last : Coherent(backend, last, rows, id)

(***************************************************************************)
(* A PutData that returns an error.                                        *)
(***************************************************************************)
\* C34: a PutData call that returns an error leaves Data(id, 0, 0) and
\* Last(id) of every device as they were before the call.
C34_ErrorChangesNothing ==
    [][(ret'.op = "PutData" /\ ret'.err # "nil") =>
           \A id \in Ids :
               /\ DataOp(backend, rows', id, 0, 0) = DataOp(backend, rows, id, 0, 0)
               /\ Last(last', id) = Last(last, id)]_vars

(***************************************************************************)
(* Open on a file that holds data: the map of last samples is rebuilt from *)
(* what is stored.  The stored device ids are the keys of l: AddDevice     *)
(* writes the id to the ids bucket (the devices table) whenever it sets    *)
(* db.last[id].                                                            *)
(***************************************************************************)
\* The ForEach of arabolt's Open over one bucket: data is the sample decoded
\* so far, replaced by the record of every key more than timeResolution
\* after it.
RECURSIVE BoltOpenLast(_, _, _)
BoltOpenLast(bkt, keys, data) ==
    IF keys = <<>> THEN [err |-> "nil", data |-> data]
    ELSE LET id == Int64(Head(keys))
         IN  IF id - data.t > timeResolution
             THEN LET u == unmarshalBinary(bkt[Head(keys)])
                  IN  IF u.err # "nil" THEN [err |-> u.err, data |-> data]
                      ELSE BoltOpenLast(bkt, Tail(keys), u.data)
             ELSE BoltOpenLast(bkt, Tail(keys), data)

\* The loop of arabolt's Open over the sorted device ids; acc is the map
\* last built so far.
RECURSIVE BoltOpenDevices(_, _, _)
BoltOpenDevices(r, devices, acc) ==
    IF devices = <<>> THEN [err |-> "nil", last |-> acc]
    ELSE LET id == Head(devices)
         IN  IF id \notin DOMAIN r
             THEN [err |-> "could not find last data sample", last |-> Empty]
             ELSE LET got == BoltOpenLast(r[id], KeysInOrder(DOMAIN r[id]), ZeroData)
                  IN  IF got.err # "nil"
                      THEN [err |-> "could not find last data sample", last |-> Empty]
                      ELSE BoltOpenDevices(r, Tail(devices), Set(acc, id, got.data))

\* The ids of the ids bucket in the order ForEach visits them.
RECURSIVE IdsInOrder(_)
IdsInOrder(S) ==
    IF S = {} THEN <<>>
    ELSE LET m == CHOOSE x \in S : \A y \in S \ {x} : StringLess(x, y)
         IN  <<m>> \o IdsInOrder(S \ {m})

BoltOpen(l, r) ==
    BoltOpenDevices(r, insertionSort("Strings", IdsInOrder(DOMAIN l)), Empty)

\* The rows of one table, ORDER BY time DESC; the first one, if any, is the
\* last sample.
SqliteOpenLast(tbl) ==
    LET asc == OrderByTime(DOMAIN tbl)
    IN  IF asc = <<>> THEN ZeroData ELSE tbl[asc[Len(asc)]]

\* DB.init of arasqlite: every id of the devices table gets the zero
\* sample, then the first row of its table.
SqliteOpen(l, r) ==
    IF \E id \in DOMAIN l : id \notin DOMAIN r
    THEN [err |-> "could not fetch last data point", last |-> Empty]
    ELSE [err |-> "nil", last |-> [id \in DOMAIN l |-> SqliteOpenLast(r[id])]]

OpenOp(b, l, r) ==
    IF b = "bolt" THEN BoltOpen(l, r) ELSE SqliteOpen(l, r)

\* Close, then Open of the same file.  When Open fails there is no store
\* and no further call.
Reopen ==
    /\ ncalls < MaxCalls
    /\ ret.op # "Reopen" \/ ret.err = "nil"
    /\ \E res \in {OpenOp(backend, last, rows)} :
           /\ last' = IF res.err = "nil" THEN res.last ELSE last
           /\ ret' = [op |-> "Reopen", id |-> "", n |-> 0, err |-> res.err, out |-> <<>>]
    /\ ncalls' = ncalls + 1
    /\ UNCHANGED <<backend, rows>>
    /\ UNCHANGED <<devvars, auxvars>>

NextReopen ==
    \/ \E id \in Ids : AddDevice(id)
    \/ \E id \in Ids, vs \in ShortBatches : PutData(id, vs)
    \/ \E id \in Ids, beg \in Bounds, end \in Bounds : Data(id, beg, end)
    \/ \E id \in Ids : LastCall(id)
    \/ DevicesCall
    \/ Reopen

SpecReopen == Init /\ [][NextReopen]_vars

\* C35: after Close and Open of the same store, Devices() returns the same
\* ids and Last(id) returns for every device what it returned before the
\* Close, whatever the spacing of the stored times.
C35_LastSurvivesReopen ==
    [][ret'.op = "Reopen" =>
           /\ ret'.err = "nil"
           /\ \A k1 \in MapOrders(DOMAIN last), k2 \in MapOrders(DOMAIN last') :
                  Devices(k1) = Devices(k2)
           /\ \A id \in DOMAIN last : Last(last', id) = Last(last, id)]_vars

(***************************************************************************)
(* The tolerance at its boundary.                                          *)
(***************************************************************************)
\* PutData of the one sample v leaves the store as it is.
PutSkips(id, v) ==
    \E res \in {PutDataOp(backend, last, rows, id, <<v>>)} :
        res.err = "nil" /\ res.rows = rows /\ res.last = last

\* PutData of the one sample v stores it.
PutStores(id, v) ==
    \E res \in {PutDataOp(backend, last, rows, id, <<v>>)} :
        res.err = "nil" /\ Key(v.t) \in DOMAIN res.rows[id] /\ res.last[id] = v

\* Open takes the record at time t after a last sample at time lt.
OpenTakes(lt, t) ==
    BoltOpenLast(Set(Empty, Key(t), marshalBinary([t |-> t, co2 |-> 600])),
                 <<Key(t)>>, [t |-> lt, co2 |-> 500]).data = [t |-> t, co2 |-> 600]

\* C32: for a namespace whose last sample is at time t, PutData of a sample
\* at t+d, d >= 0, is skipped when d <= 5 s and stored when d > 5 s, and
\* Open, rebuilding the last sample, takes a record at t+d on the same
\* condition.
C32_ToleranceBoundary ==
    \A id \in DOMAIN last : \A v \in Samples :
        (Last(last, id).err = "nil" /\ id \in DOMAIN rows /\ v.t >= last[id].t) =>
            LET d == v.t - last[id].t
            IN  /\ d <= timeResolution => PutSkips(id, v)
                /\ d > timeResolution => PutStores(id, v)
                /\ (OpenTakes(last[id].t, v.t) <=> d > timeResolution)

(***************************************************************************)
(* Ingestion and the last sample of the manager.                           *)
(***************************************************************************)
\* g is in Server.write and about to return.
WriteReturns(g) == gs[g].req = "ingest" /\ gs[g].pc = "unlock"

\* The handler of g has nothing more to do than answer 400.
Refused(g) == gs[g].pc = "reply" /\ gs[g].status = StatusBadRequest

C39_State ==
    /\ \A g \in Goroutines :
           \* a write that returns nil after a batch that is not empty
           /\ (WriteReturns(g) /\ gs[g].err = "nil" /\ gs[g].n > 0) =>
                  /\ Last(last, gs[g].id).err = "nil"
                  /\ mgrs[gs[g].id].last = Last(last, gs[g].id).data
           \* a request that is not a POST or names an unknown device
           /\ (gs[g].req = "ingest" /\ gs[g].pc # "idle"
                 /\ (gs[g].method # "POST" \/ gs[g].id \notin DOMAIN mgrs)) => Refused(g)
    \* between two writes the manager holds the last sample of the store
    /\ mu.w = "none" => \A id \in DOMAIN mgrs : mgrs[id].last = last[id]

C39_Step ==
    \A g \in Goroutines :
        \* write returns at once: no manager (an error) or an empty batch (nil)
        /\ (gs[g].req = "ingest" /\ gs[g].pc = "lock" /\ gs'[g].pc = "unlock") =>
               /\ UNCHANGED <<last, rows, mgrs>>
               /\ gs'[g].err = IF gs[g].id \in DOMAIN mgrs THEN "nil" ELSE "no such device"
               /\ gs[g].id \in DOMAIN mgrs => gs'[g].n = 0
        \* the request is refused
        /\ (~Refused(g) /\ Refused(g)') => UNCHANGED <<last, rows, mgrs>>
        /\ (Refused(g) /\ gs[g].req = "ingest" /\ gs'[g] # gs[g]) =>
               UNCHANGED <<last, rows, mgrs>>

Regenerates(g) == gs[g].pc = "regen"

\* g is a plot handler that has its manager and reads a buffer.
ReadsPlot(g) == gs[g].pc = "plot" /\ gs[g].id \in DOMAIN mgrs

C40_State ==
    \A g \in Goroutines :
        /\ Regenerates(g) => (mu.w = g /\ mu.r = {})
        /\ gs[g].pc = "plot" => (g \in mu.r /\ mu.w = "none")
        /\ ReadsPlot(g) => mgrs[gs[g].id].plots.st = "ready"
        /\ \A h \in Goroutines \ {g} :
               Regenerates(g) => ~(Regenerates(h) \/ gs[h].pc = "plot")

C40_Step ==
    mgrs' # mgrs => \E g \in Goroutines : mu.w = g /\ mu'.w = g /\ mu.r = {} /\ mu'.r = {}

\* C40: the plot buffers and the last sample of a manager change only
\* while srv.mu is held exclusively, and a plot handler reads a buffer only
\* while it holds the shared lock: no buffer is read while it is written,
\* and no two regenerations overlap.
C40_PlotsUnderLock == []C40_State /\ [][C40_Step]_vars

\* A regeneration is under way while a plot handler of the same device
\* waits for the lock.
C40_Witness ==
    /\ Regenerates("g1")
    /\ mgrs[gs["g1"].id].plots.st = "busy"
    /\ gs["g2"].pc = "lock" /\ gs["g2"].req = "plot" /\ gs["g2"].id = gs["g1"].id

====
